---- MODULE Spec2Model ----
(***************************************************************************)
(* Model of the log aggregation backends of the security dashboard.        *)
(*                                                                         *)
(* The repository holds three separate Go programs:                        *)
(*   "main" : src/backend/main.go       in-memory logStore + mock fallback *)
(*   "db"   : src/unnamed/part_003 (handlers) + src/unnamed/part_002       *)
(*            (Database, an SQLite table `logs`)                           *)
(*   "imdb" : src/unnamed/part_001      InMemoryDB                         *)
(* One of them runs; `program` says which.                                 *)
(*                                                                         *)
(* Strings that the code inspects character by character (rule names,      *)
(* events, IP addresses) are sequences of one-character strings.           *)
(* Instants are whole minutes on one clock (UTC); 0 is Go's zero time.Time.*)
(***************************************************************************)
EXTENDS Integers, Sequences, FiniteSets, TLC

VARIABLES
    program,     \* which of the three binaries is running
    now,         \* the wall clock, in minutes
    logStore,    \* logStore.logs of src/backend/main.go (and of part_003)
    dbLogs,      \* rows of the SQLite table `logs`, in rowid order
    inMemoryDB,  \* InMemoryDB.logs of part_001
    resp,        \* the last HTTP response written
    pending,     \* in-memory aggregation requests between snapshot and answer
    ui,          \* state of the dashboard in the browser (part_006, part_007)
    mu,          \* the sync.RWMutex of the in-memory store
    catRule,     \* input of the categorisation (pure-function specification)
    catResult    \* its result

vars == <<program, now, logStore, dbLogs, inMemoryDB, resp, pending, ui, mu, catRule, catResult>>

---------------------------------------------------------------------------
(* Bounds of the model *)

MaxLogs == 3

MaxTicks == 1

MaxPermKeys == 4

MaxSeed == 1

StartTime == 10000

MaxFragments == 3

---------------------------------------------------------------------------
(* Time *)

Hour == 60

Day == 24 * Hour

\* time.Time.Format("15:04") and strftime('%H:%M', ...): hour and minute of day
Format1504(t) == << (t % Day) \div Hour, t % Hour >>

\* time.Time.IsZero
IsZero(t) == t = 0

---------------------------------------------------------------------------
(* Strings *)

LowerOf ==
    "A" :> "a" @@ "B" :> "b" @@ "C" :> "c" @@ "D" :> "d" @@ "E" :> "e" @@ "F" :> "f" @@
    "G" :> "g" @@ "H" :> "h" @@ "I" :> "i" @@ "J" :> "j" @@ "K" :> "k" @@ "L" :> "l" @@
    "M" :> "m" @@ "N" :> "n" @@ "O" :> "o" @@ "P" :> "p" @@ "Q" :> "q" @@ "R" :> "r" @@
    "S" :> "s" @@ "T" :> "t" @@ "U" :> "u" @@ "V" :> "v" @@ "W" :> "w" @@ "X" :> "x" @@
    "Y" :> "y" @@ "Z" :> "z"

\* strings.ToLower, on the ASCII letters
ToLower(s) == [i \in 1..Len(s) |-> IF s[i] \in DOMAIN LowerOf THEN LowerOf[s[i]] ELSE s[i]]

\* strings.Contains
Contains(s, substr) ==
    \E i \in 0..(Len(s) - Len(substr)) : SubSeq(s, i + 1, i + Len(substr)) = substr

\* "login"
KwLogin ==
    <<"l", "o", "g", "i", "n">>

\* "access"
KwAccess ==
    <<"a", "c", "c", "e", "s", "s">>

\* "network"
KwNetwork ==
    <<"n", "e", "t", "w", "o", "r", "k">>

\* "traffic"
KwTraffic ==
    <<"t", "r", "a", "f", "f", "i", "c">>

\* "threat"
KwThreat ==
    <<"t", "h", "r", "e", "a", "t">>

\* "malware"
KwMalware ==
    <<"m", "a", "l", "w", "a", "r", "e">>

\* "behavior"
KwBehavior ==
    <<"b", "e", "h", "a", "v", "i", "o", "r">>

\* "uba"
KwUba ==
    <<"u", "b", "a">>

\* "Suspicious Login Attempt"
SuspiciousLoginAttempt ==
    <<"S", "u", "s", "p", "i", "c", "i", "o", "u", "s", " ", "L", "o", "g", "i", "n", " ", "A", "t", "t", "e", "m", "p", "t">>

\* "Data Exfiltration Detected"
DataExfiltrationDetected ==
    <<"D", "a", "t", "a", " ", "E", "x", "f", "i", "l", "t", "r", "a", "t", "i", "o", "n", " ", "D", "e", "t", "e", "c", "t", "e", "d">>

\* "Unusual Network Traffic"
UnusualNetworkTraffic ==
    <<"U", "n", "u", "s", "u", "a", "l", " ", "N", "e", "t", "w", "o", "r", "k", " ", "T", "r", "a", "f", "f", "i", "c">>

\* "Privilege Escalation"
PrivilegeEscalation ==
    <<"P", "r", "i", "v", "i", "l", "e", "g", "e", " ", "E", "s", "c", "a", "l", "a", "t", "i", "o", "n">>

\* "Malware Detection"
MalwareDetection ==
    <<"M", "a", "l", "w", "a", "r", "e", " ", "D", "e", "t", "e", "c", "t", "i", "o", "n">>

\* "Anomalous User Behavior"
AnomalousUserBehavior ==
    <<"A", "n", "o", "m", "a", "l", "o", "u", "s", " ", "U", "s", "e", "r", " ", "B", "e", "h", "a", "v", "i", "o", "r">>

\* "Brute Force Attack"
BruteForceAttack ==
    <<"B", "r", "u", "t", "e", " ", "F", "o", "r", "c", "e", " ", "A", "t", "t", "a", "c", "k">>

\* "Data Breach Attempt"
DataBreachAttempt ==
    <<"D", "a", "t", "a", " ", "B", "r", "e", "a", "c", "h", " ", "A", "t", "t", "e", "m", "p", "t">>

\* "192.168.1.100"
Ip192_168_1_100 ==
    <<"1", "9", "2", ".", "1", "6", "8", ".", "1", ".", "1", "0", "0">>

\* "10.0.0.50"
Ip10_0_0_50 ==
    <<"1", "0", ".", "0", ".", "0", ".", "5", "0">>

\* "172.16.0.25"
Ip172_16_0_25 ==
    <<"1", "7", "2", ".", "1", "6", ".", "0", ".", "2", "5">>

\* "192.168.1.101"
Ip192_168_1_101 ==
    <<"1", "9", "2", ".", "1", "6", "8", ".", "1", ".", "1", "0", "1">>

\* "10.0.0.51"
Ip10_0_0_51 ==
    <<"1", "0", ".", "0", ".", "0", ".", "5", "1">>

\* "172.16.0.26"
Ip172_16_0_26 ==
    <<"1", "7", "2", ".", "1", "6", ".", "0", ".", "2", "6">>

\* "192.168.1.102"
Ip192_168_1_102 ==
    <<"1", "9", "2", ".", "1", "6", "8", ".", "1", ".", "1", "0", "2">>

\* "10.0.0.52"
Ip10_0_0_52 ==
    <<"1", "0", ".", "0", ".", "0", ".", "5", "2">>

---------------------------------------------------------------------------
(* Categorisation of a rule name by the database backend *)

\* categoryOf with the threat case tested before the access case.
categoryOfThreatFirst(rule) ==
    LET l == ToLower(rule) IN
    IF Contains(l, KwThreat) \/ Contains(l, KwMalware) THEN "threat"
    ELSE IF Contains(l, KwLogin) \/ Contains(l, KwAccess) THEN "access"
    ELSE IF Contains(l, KwNetwork) \/ Contains(l, KwTraffic) THEN "network"
    ELSE IF Contains(l, KwBehavior) \/ Contains(l, KwUba) THEN "uba"
    ELSE "access"

\* The switch of GetSummaryStats: the first matching case decides.
categoryOf(rule) ==
    LET l == ToLower(rule) IN
    IF Contains(l, KwLogin) \/ Contains(l, KwAccess) THEN "access"
    ELSE IF Contains(l, KwNetwork) \/ Contains(l, KwTraffic) THEN "network"
    ELSE IF Contains(l, KwThreat) \/ Contains(l, KwMalware) THEN "threat"
    ELSE IF Contains(l, KwBehavior) \/ Contains(l, KwUba) THEN "uba"
    ELSE "access"

\* The switch of GetTimelineData: no "uba" case, the default is "access".
timelineCategoryOf(rule) ==
    LET l == ToLower(rule) IN
    IF Contains(l, KwLogin) \/ Contains(l, KwAccess) THEN "access"
    ELSE IF Contains(l, KwNetwork) \/ Contains(l, KwTraffic) THEN "network"
    ELSE IF Contains(l, KwThreat) \/ Contains(l, KwMalware) THEN "threat"
    ELSE "access"

---------------------------------------------------------------------------
(* Mock data and the in-memory lookups *)

\* var mockEvents: RuleName, Urgency, Category, SourceIP, Timestamp
\* (Destination and Description are left at their zero value "").
mockEvents ==
    << [RuleName |-> SuspiciousLoginAttempt, Urgency |-> "critical", Category |-> "access",
        SourceIP |-> Ip192_168_1_100, Timestamp |-> StartTime - 2 * Hour],
       [RuleName |-> DataExfiltrationDetected, Urgency |-> "high", Category |-> "threat",
        SourceIP |-> Ip10_0_0_50, Timestamp |-> StartTime - 1 * Hour],
       [RuleName |-> UnusualNetworkTraffic, Urgency |-> "medium", Category |-> "network",
        SourceIP |-> Ip172_16_0_25, Timestamp |-> StartTime - 30],
       [RuleName |-> PrivilegeEscalation, Urgency |-> "critical", Category |-> "access",
        SourceIP |-> Ip192_168_1_101, Timestamp |-> StartTime - 15],
       [RuleName |-> MalwareDetection, Urgency |-> "high", Category |-> "threat",
        SourceIP |-> Ip10_0_0_51, Timestamp |-> StartTime - 10],
       [RuleName |-> AnomalousUserBehavior, Urgency |-> "medium", Category |-> "uba",
        SourceIP |-> Ip172_16_0_26, Timestamp |-> StartTime - 5],
       [RuleName |-> BruteForceAttack, Urgency |-> "critical", Category |-> "access",
        SourceIP |-> Ip192_168_1_102, Timestamp |-> StartTime - 2],
       [RuleName |-> DataBreachAttempt, Urgency |-> "high", Category |-> "threat",
        SourceIP |-> Ip10_0_0_52, Timestamp |-> StartTime - 1] >>

\* Index of the first mock event with this rule name, 0 when there is none.
RECURSIVE firstMock(_, _)
firstMock(ruleName, i) ==
    IF i > Len(mockEvents) THEN 0
    ELSE IF mockEvents[i].RuleName = ruleName THEN i
    ELSE firstMock(ruleName, i + 1)

\* cat := ""; for _, me := range mockEvents { if me.RuleName == log.RuleName { cat = me.Category; break } }
mockCategory(ruleName) ==
    LET i == firstMock(ruleName, 1) IN IF i = 0 THEN "" ELSE mockEvents[i].Category

\* urgency := "medium"; for ... { urgency = me.Urgency; break }
mockUrgency(ruleName) ==
    LET i == firstMock(ruleName, 1) IN IF i = 0 THEN "medium" ELSE mockEvents[i].Urgency

\* The fallback of the in-memory handlers: mockEvents converted to LogEntry.
mockSource ==
    [i \in 1..Len(mockEvents) |->
        [Timestamp |-> mockEvents[i].Timestamp, Level |-> "INFO", Message |-> <<>>,
         RuleName |-> mockEvents[i].RuleName, SourceIP |-> mockEvents[i].SourceIP,
         Metadata |-> "{}"]]

\* sourceOf that adds the mock entries to a snapshot of a single entry.
sourceOfMixed(logs) ==
    IF Len(logs) > 1 THEN logs ELSE logs \o mockSource

\* if len(logs) > 0 { source = logs } else { source = <mock entries> }
sourceOf(logs) == IF Len(logs) > 0 THEN logs ELSE mockSource

---------------------------------------------------------------------------
(* Helpers over sequences *)

\* Number of elements of seq that satisfy P.
CountIf(seq, P(_)) == Cardinality({i \in 1..Len(seq) : P(seq[i])})

\* The distinct values of key(seq[i]), in order of first occurrence
\* (the order in which a Go map receives its keys).
RECURSIVE firstSeen(_, _, _)
firstSeen(seq, key(_), acc) ==
    IF seq = <<>> THEN acc
    ELSE LET k == key(Head(seq)) IN
         firstSeen(Tail(seq), key,
                   IF \E j \in 1..Len(acc) : acc[j] = k THEN acc ELSE Append(acc, k))

\* All orderings of the elements of a sequence of distinct values.
RECURSIVE permutations(_)
permutations(seq) ==
    IF Len(seq) <= 1 THEN {seq}
    ELSE UNION { { <<seq[i]>> \o p :
                     p \in permutations(SubSeq(seq, 1, i - 1) \o SubSeq(seq, i + 1, Len(seq))) } :
                 i \in 1..Len(seq) }

\* The rotations of a sequence.
rotations(seq) ==
    { SubSeq(seq, i, Len(seq)) \o SubSeq(seq, 1, i - 1) : i \in 1..Len(seq) } \cup {seq}

\* `for k, v := range m`: Go leaves the iteration order of a map unspecified.
\* Up to MaxPermKeys keys every order is explored; for more keys the orders
\* explored are the rotations of the insertion order (what the Go 1.21 runtime
\* produces for a map that fits one bucket).
mapOrders(keys) ==
    IF Len(keys) <= MaxPermKeys THEN permutations(keys) ELSE rotations(keys)

\* Seeds of the random source explored, and the n-th value of rand.Intn(5)
\* under a seed: seed 0 yields 0,0,0,..., seed 1 yields 0,1,2,3,4,0,...,
\* seed 2 yields 0,2,4,1,3,0,...
RandSeeds == 0..MaxSeed

randIntn5(seed, n) == (seed * n) % 5

\* for i := 0; i < 10; i++ { sparkline = append(sparkline, count/10+rand.Intn(5)) }
\* for the j-th element of the list under construction.
sparklineOf(count, seed, j) ==
    [i \in 1..10 |-> (count \div 10) + randIntn5(seed, (j - 1) * 10 + (i - 1))]

---------------------------------------------------------------------------
(* The aggregations of src/backend/main.go, as functions of `source` *)

summaryStats(source) ==
    [accessNotables  |-> [total |-> CountIf(source, LAMBDA e : mockCategory(e.RuleName) = "access"), delta |-> 0],
     networkNotables |-> [total |-> CountIf(source, LAMBDA e : mockCategory(e.RuleName) = "network"), delta |-> 0],
     threatNotables  |-> [total |-> CountIf(source, LAMBDA e : mockCategory(e.RuleName) = "threat"), delta |-> 0],
     ubaNotables     |-> [total |-> CountIf(source, LAMBDA e : mockCategory(e.RuleName) = "uba"), delta |-> 0]]

urgencyData(source) ==
    [critical |-> CountIf(source, LAMBDA e : mockUrgency(e.RuleName) = "critical"),
     high     |-> CountIf(source, LAMBDA e : mockUrgency(e.RuleName) = "high"),
     medium   |-> CountIf(source, LAMBDA e : mockUrgency(e.RuleName) = "medium"),
     low      |-> CountIf(source, LAMBDA e : mockUrgency(e.RuleName) = "low")]

\* timelineLabels with the newest hour first.
timelineLabelsNewestFirst(t) == [k \in 1..24 |-> Format1504(t - (k - 1) * Hour)]

\* labels[k] for k = 1..24 is the label appended at loop index i = 24 - k.
timelineLabels(t) == [k \in 1..24 |-> Format1504(t - (24 - k) * Hour)]

timelineData(source, t) ==
    LET inBucket(e, k, cat) ==
            /\ Format1504(e.Timestamp) = Format1504(t - (24 - k) * Hour)
            /\ mockCategory(e.RuleName) = cat
        series(cat) == [k \in 1..24 |-> CountIf(source, LAMBDA e : inBucket(e, k, cat))]
    IN [labels |-> timelineLabels(t),
        series |-> << [name |-> "Access", data |-> series("access")],
                      [name |-> "Network", data |-> series("network")],
                      [name |-> "Threat", data |-> series("threat")] >>]

\* The responses topEventsHandler can write: one per iteration order of
\* ruleCounts and per seed of the random source.
topEvents(source) ==
    LET keys == firstSeen(source, LAMBDA e : e.RuleName, <<>>)
    IN { [j \in 1..Len(order) |->
            LET count == CountIf(source, LAMBDA e : e.RuleName = order[j])
            IN [ruleName |-> order[j], sparkline |-> sparklineOf(count, seed, j),
                count |-> count, urgency |-> mockUrgency(order[j])]] :
         order \in mapOrders(keys), seed \in RandSeeds }

RECURSIVE firstWith(_, _, _)
\* Index of the first element of seq whose key is k (it exists).
firstWith(seq, key(_), k) ==
    IF key(Head(seq)) = k THEN 1 ELSE 1 + firstWith(Tail(seq), key, k)

\* The responses topSourcesHandler can write. The category of a source is
\* looked up for the rule of the first entry seen with this source IP.
topSources(source) ==
    LET keys == firstSeen(source, LAMBDA e : e.SourceIP, <<>>)
    IN { [j \in 1..Len(order) |->
            LET count == CountIf(source, LAMBDA e : e.SourceIP = order[j])
                first == source[firstWith(source, LAMBDA e : e.SourceIP, order[j])]
            IN [sourceIP |-> order[j], sparkline |-> sparklineOf(count, seed, j),
                count |-> count, category |-> mockCategory(first.RuleName)]] :
         order \in mapOrders(keys), seed \in RandSeeds }

---------------------------------------------------------------------------
(* The queries of Database (src/unnamed/part_002), as functions of the rows *)

TopLimit == 10

\* WHERE timestamp >= datetime('now', '-24 hours')
last24h(rows, t) == SelectSeq(rows, LAMBDA r : r.Timestamp >= t - Day)

GetSummaryStats(rows) ==
    [accessNotables  |-> [total |-> CountIf(rows, LAMBDA r : categoryOf(r.Rule) = "access"), delta |-> 0],
     networkNotables |-> [total |-> CountIf(rows, LAMBDA r : categoryOf(r.Rule) = "network"), delta |-> 0],
     threatNotables  |-> [total |-> CountIf(rows, LAMBDA r : categoryOf(r.Rule) = "threat"), delta |-> 0],
     ubaNotables     |-> [total |-> CountIf(rows, LAMBDA r : categoryOf(r.Rule) = "uba"), delta |-> 0]]

\* SELECT urgency, COUNT(*) ... GROUP BY urgency; the switch keeps the groups 4, 3, 2, 1.
GetUrgencyData(rows, t) ==
    LET recent == last24h(rows, t) IN
    [critical |-> CountIf(recent, LAMBDA r : r.Urgency = 4),
     high     |-> CountIf(recent, LAMBDA r : r.Urgency = 3),
     medium   |-> CountIf(recent, LAMBDA r : r.Urgency = 2),
     low      |-> CountIf(recent, LAMBDA r : r.Urgency = 1)]

\* for i, label := range labels { if label == hour { ...; break } }: the first equal label, 0 if none.
RECURSIVE firstLabel(_, _, _)
firstLabel(labels, hour, i) ==
    IF i > Len(labels) THEN 0
    ELSE IF labels[i] = hour THEN i
    ELSE firstLabel(labels, hour, i + 1)

\* Every (hour, rule) group of the last 24 hours adds its count to the first
\* label equal to its hour, in the series of its category.
GetTimelineData(rows, t) ==
    LET labels == timelineLabels(t)
        recent == last24h(rows, t)
        inBucket(r, k, cat) ==
            /\ firstLabel(labels, Format1504(r.Timestamp), 1) = k
            /\ timelineCategoryOf(r.Rule) = cat
        series(cat) == [k \in 1..24 |-> CountIf(recent, LAMBDA r : inBucket(r, k, cat))]
    IN [labels |-> labels,
        series |-> << [name |-> "Access", data |-> series("access")],
                      [name |-> "Network", data |-> series("network")],
                      [name |-> "Threat", data |-> series("threat")] >>]

\* ORDER BY count DESC: the orders of the groups in which counts never increase
\* (SQL leaves the order of equal counts open).
orderByCountDesc(keys, cnt(_)) ==
    { o \in permutations(keys) : \A i, j \in 1..Len(o) : i < j => cnt(o[i]) >= cnt(o[j]) }

\* LIMIT n
limit(seq, n) == IF Len(seq) <= n THEN seq ELSE SubSeq(seq, 1, n)

\* SELECT event, COUNT(*) FROM logs GROUP BY event ORDER BY count DESC LIMIT 10
GetTopEvents(rows) ==
    LET keys == firstSeen(rows, LAMBDA r : r.Event, <<>>)
        cnt(k) == CountIf(rows, LAMBDA r : r.Event = k)
    IN { [j \in 1..Len(limit(order, TopLimit)) |->
            [ruleName |-> order[j], sparkline |-> sparklineOf(cnt(order[j]), seed, j),
             count |-> cnt(order[j]), urgency |-> "medium"]] :
         order \in orderByCountDesc(keys, cnt), seed \in RandSeeds }

\* SELECT source_ip, COUNT(*) FROM logs GROUP BY source_ip ORDER BY count DESC LIMIT 10
\* Sparkline and Category keep their zero values.
GetTopSources(rows) ==
    LET keys == firstSeen(rows, LAMBDA r : r.SourceIP, <<>>)
        cnt(k) == CountIf(rows, LAMBDA r : r.SourceIP = k)
    IN { [j \in 1..Len(limit(order, TopLimit)) |->
            [sourceIP |-> order[j], sparkline |-> <<>>,
             count |-> cnt(order[j]), category |-> ""]] :
         order \in orderByCountDesc(keys, cnt) }

\* SQLite `s LIKE p`: % stands for any run of characters, _ for any single
\* character, letters compare without regard to ASCII case.
RECURSIVE like(_, _)
like(s, p) ==
    IF p = <<>> THEN s = <<>>
    ELSE IF Head(p) = "%" THEN \E k \in 0..Len(s) : like(SubSeq(s, k + 1, Len(s)), Tail(p))
    ELSE IF s = <<>> THEN FALSE
    ELSE /\ \/ Head(p) = "_"
            \/ ToLower(<<Head(p)>>) = ToLower(<<Head(s)>>)
         /\ like(Tail(s), Tail(p))

\* ORDER BY timestamp ASC in place of DESC.
orderByTimestampAsc(rows, idx) ==
    { o \in permutations(idx) :
        \A i, j \in 1..Len(o) : i < j => rows[o[i]].Timestamp <= rows[o[j]].Timestamp }

\* ORDER BY timestamp DESC over the rows at the given indices: the orders in
\* which timestamps never increase (SQL leaves the order of equal ones open).
orderByTimestampDesc(rows, idx) ==
    { o \in permutations(idx) :
        \A i, j \in 1..Len(o) : i < j => rows[o[i]].Timestamp >= rows[o[j]].Timestamp }

\* Database.SearchLogs: the result lists the query can return.
SearchLogs(rows, ip, event, n) ==
    LET matches(r) ==
            /\ ip # <<>> => \/ like(r.SourceIP, <<"%">> \o ip \o <<"%">>)
                            \/ like(r.DestinationIP, <<"%">> \o ip \o <<"%">>)
            /\ event # <<>> => like(r.Event, <<"%">> \o event \o <<"%">>)
        idx == SelectSeq([i \in 1..Len(rows) |-> i], LAMBDA i : matches(rows[i]))
    IN { [j \in 1..Len(limit(o, n)) |-> rows[o[j]]] : o \in orderByTimestampDesc(rows, idx) }

---------------------------------------------------------------------------
(* Requests explored *)

\* "Port Scan"
PortScan ==
    <<"P", "o", "r", "t", " ", "S", "c", "a", "n">>

\* "LOGIN Threat"
LoginThreat ==
    <<"L", "O", "G", "I", "N", " ", "T", "h", "r", "e", "a", "t">>

\* "UBA Network Anomaly"
UbaNetworkAnomaly ==
    <<"U", "B", "A", " ", "N", "e", "t", "w", "o", "r", "k", " ", "A", "n", "o", "m", "a", "l", "y">>

\* "10.0.0.1"
Ip10_0_0_1 ==
    <<"1", "0", ".", "0", ".", "0", ".", "1">>

\* "brute force"
EvtBruteForce ==
    <<"b", "r", "u", "t", "e", " ", "f", "o", "r", "c", "e">>

\* "disk full"
MsgDiskFull ==
    <<"d", "i", "s", "k", " ", "f", "u", "l", "l">>

\* "login ok"
MsgLoginOk ==
    <<"l", "o", "g", "i", "n", " ", "o", "k">>

\* Timestamps a client may send: absent (zero), two days old, ninety minutes
\* old, one hour old, one day ahead.
\* "Port Scanner"
PortScanner ==
    <<"P", "o", "r", "t", " ", "S", "c", "a", "n", "n", "e", "r">>

\* "SCAN"
QryScan ==
    <<"S", "C", "A", "N">>

\* "BRUTE"
QryBrute ==
    <<"B", "R", "U", "T", "E">>

\* Values of the limit parameter of GET /api/logs: absent, "1", "2", "+2",
\* "0", "-1", "abc", "1000", "1001".
limitStrs ==
    { <<>>, <<"1">>, <<"2">>, <<"+", "2">>, <<"0">>, <<"-", "1">>, <<"a", "b", "c">>,
      <<"1", "0", "0", "0">>, <<"1", "0", "0", "1">> }

\* Query strings of GET /api/logs sent to src/backend/main.go.
queriesMain ==
    { [ip |-> ip, event |-> event] :
        ip \in {<<>>, Ip10_0_0_1, Ip192_168_1_100}, event \in {<<>>, KwLogin, QryScan} }

\* Query strings of GET /api/logs sent to the database backend.
queriesDB ==
    { [ip |-> ip, event |-> event, limit |-> <<>>] :
        ip \in {<<>>, Ip10_0_0_1, Ip192_168_1_100}, event \in {<<>>, KwLogin, QryBrute} }
    \cup { [ip |-> <<>>, event |-> <<>>, limit |-> l] : l \in limitStrs }
    \cup { [ip |-> <<>>, event |-> KwLogin, limit |-> <<"1">>] }

\* Bodies of POST /api/logs decoded by src/backend/main.go.
bodiesMain ==
    LET base == [Timestamp |-> 0, Level |-> "", Message |-> <<>>,
                 RuleName |-> SuspiciousLoginAttempt, SourceIP |-> Ip192_168_1_100,
                 Metadata |-> "nil"]
    IN { base,
         [base EXCEPT !.Timestamp = StartTime - 90, !.Level = "WARN",
                      !.RuleName = MalwareDetection, !.SourceIP = Ip10_0_0_1],
         [base EXCEPT !.Timestamp = StartTime - Hour, !.Level = "ERROR",
                      !.RuleName = PortScan, !.Metadata = "{}"],
         [base EXCEPT !.Timestamp = StartTime - 2 * Day],
         [base EXCEPT !.Timestamp = StartTime + Day, !.RuleName = MalwareDetection] }

\* Bodies of POST /api/logs decoded by the database backend (part_003).
bodiesDB ==
    LET base == [Timestamp |-> 0, Level |-> "", Rule |-> SuspiciousLoginAttempt,
                 SourceIP |-> Ip192_168_1_100, DestinationIP |-> <<>>,
                 Event |-> SuspiciousLoginAttempt, Description |-> <<>>, Urgency |-> 0]
    IN { base,
         [base EXCEPT !.Timestamp = StartTime - 2 * Day, !.Level = "WARN",
                      !.Rule = MalwareDetection, !.Event = MalwareDetection,
                      !.SourceIP = Ip10_0_0_1, !.Urgency = 3],
         [base EXCEPT !.Timestamp = StartTime - 90, !.Level = "ERROR",
                      !.Rule = PortScan, !.Event = <<>>, !.Urgency = 7],
         [base EXCEPT !.Timestamp = StartTime + Day, !.Rule = LoginThreat,
                      !.Event = EvtBruteForce, !.DestinationIP = Ip10_0_0_1, !.Urgency = 4],
         [base EXCEPT !.Timestamp = StartTime - Hour, !.Rule = UbaNetworkAnomaly,
                      !.Urgency = 1],
         [base EXCEPT !.Rule = AnomalousUserBehavior, !.Event = AnomalousUserBehavior,
                      !.Level = "INFO", !.Urgency = 2] }

\* Bodies of POST /logs decoded by part_001.
bodiesInMemoryDB ==
    { [Timestamp |-> 0, Level |-> "", Message |-> <<>>, Metadata |-> "nil"],
      [Timestamp |-> StartTime - Hour, Level |-> "ERROR", Message |-> MsgDiskFull, Metadata |-> "{}"],
      [Timestamp |-> StartTime + Day, Level |-> "INFO", Message |-> MsgLoginOk, Metadata |-> "nil"] }

---------------------------------------------------------------------------
(* Initial state *)

NoResp == [op |-> "none"]

\* The dashboard before its first fetch: no top events, no drilldown open.
noUi == [events |-> <<>>, drilldown |-> <<>>]

\* The zero sync.RWMutex: no holder, no goroutine waiting in Lock.
freeMu == [writer |-> "none", waiting |-> {}, readers |-> {}]

Init ==
    /\ program \in {"main", "db", "imdb"}
    /\ now = StartTime
    /\ logStore = <<>>
    /\ dbLogs = <<>>
    /\ inMemoryDB = <<>>
    /\ resp = NoResp
    /\ pending = <<>>
    /\ ui = noUi
    /\ mu = freeMu
    /\ catRule = <<>>
    /\ catResult = ""

---------------------------------------------------------------------------
(* Ingestion *)

\* The entries the running program holds, and the rule name of one of them.
stored ==
    IF program = "main" THEN logStore
    ELSE IF program = "db" THEN dbLogs
    ELSE inMemoryDB

storedRuleName(e) == IF program = "main" THEN e.RuleName ELSE e.Rule

\* fillDefaults without the replacement of a zero timestamp.
fillDefaultsKeepsZeroTime(entry, t) ==
    [entry EXCEPT !.Level = IF @ = "" THEN "INFO" ELSE @]

\* if entry.Timestamp.IsZero() { entry.Timestamp = time.Now() }
\* if entry.Level == "" { entry.Level = "INFO" }
fillDefaults(entry, t) ==
    [entry EXCEPT !.Timestamp = IF IsZero(@) THEN t ELSE @,
                  !.Level = IF @ = "" THEN "INFO" ELSE @]

\* if entry.Metadata == nil { entry.Metadata = make(map[string]string) }
fillMetadata(entry) ==
    [entry EXCEPT !.Metadata = IF @ = "nil" THEN "{}" ELSE @]

\* logIngestHandler of src/backend/main.go, body decoded.
logIngestHandler(body) ==
    /\ program = "main"
    /\ resp = NoResp
    /\ Len(logStore) < MaxLogs
    /\ logStore' = Append(logStore, fillMetadata(fillDefaults(body, now)))
    /\ resp' = [op |-> "ingest", status |-> 201]
    /\ UNCHANGED <<program, now, dbLogs, inMemoryDB, pending, ui, mu, catRule, catResult>>

\* INSERT INTO logs (...) VALUES (...)
InsertLog(rows, log) == Append(rows, log)

\* logIngestHandlerDB of part_003, body decoded, insert succeeded.
logIngestHandlerDB(body) ==
    /\ program = "db"
    /\ resp = NoResp
    /\ Len(dbLogs) < MaxLogs
    /\ dbLogs' = InsertLog(dbLogs, fillDefaults(body, now))
    /\ resp' = [op |-> "ingest", status |-> 201]
    /\ UNCHANGED <<program, now, logStore, inMemoryDB, pending, ui, mu, catRule, catResult>>

\* logIngestHandlerDB when db.InsertLog returns an error.
logIngestHandlerDBFails ==
    /\ program = "db"
    /\ resp = NoResp
    /\ resp' = [op |-> "ingest", status |-> 500]
    /\ UNCHANGED <<program, now, logStore, dbLogs, inMemoryDB, pending, ui, mu, catRule, catResult>>

\* InMemoryDB.Add putting the entry in front of the slice.
AddInFront(logs, entry) == <<entry>> \o logs

\* InMemoryDB.Add
Add(logs, entry) == Append(logs, entry)

\* logIngestHandler of part_001, body decoded.
logIngestHandlerInMemoryDB(body) ==
    /\ program = "imdb"
    /\ resp = NoResp
    /\ Len(inMemoryDB) < MaxLogs
    /\ inMemoryDB' = Add(inMemoryDB, fillMetadata(fillDefaults(body, now)))
    /\ resp' = [op |-> "ingest", status |-> 201]
    /\ UNCHANGED <<program, now, logStore, dbLogs, pending, ui, mu, catRule, catResult>>

\* An ingest that stores the entry the decoder left behind before it answers
\* the rejection.
logIngestRejectedAfterStore(status) ==
    /\ resp = NoResp
    /\ stored # <<>>
    /\ Len(stored) < MaxLogs
    /\ logStore' = IF program = "main" THEN Append(logStore, logStore[1]) ELSE logStore
    /\ dbLogs' = IF program = "db" THEN Append(dbLogs, dbLogs[1]) ELSE dbLogs
    /\ inMemoryDB' = IF program = "imdb" THEN Append(inMemoryDB, inMemoryDB[1]) ELSE inMemoryDB
    /\ resp' = [op |-> "ingest", status |-> status]
    /\ UNCHANGED <<program, now, pending, ui, mu, catRule, catResult>>

\* Any ingest handler when the body does not decode (400), and a request to
\* the ingest route with a method that is not served (405): every method but
\* POST on /logs of part_001, every method but POST and GET on /api/logs of
\* src/backend/main.go; part_003 sends every method but POST to the search.
logIngestRejected(status) ==
    /\ status = 405 => program \in {"imdb", "main"}
    /\ resp = NoResp
    /\ resp' = [op |-> "ingest", status |-> status]
    /\ UNCHANGED <<program, now, logStore, dbLogs, inMemoryDB, pending, ui, mu, catRule, catResult>>

\* The response has been written; the server waits for the next request.
Deliver ==
    /\ resp # NoResp
    /\ resp' = NoResp
    /\ UNCHANGED <<program, now, logStore, dbLogs, inMemoryDB, pending, ui, mu, catRule, catResult>>

\* Time passes between two requests.
Tick(d) ==
    /\ resp = NoResp
    /\ d = Hour => (now - StartTime) % Day < MaxTicks * Hour
    /\ d = Day => now - StartTime < Day
    /\ now' = now + d
    /\ resp' = NoResp
    /\ UNCHANGED <<program, logStore, dbLogs, inMemoryDB, pending, ui, mu, catRule, catResult>>

---------------------------------------------------------------------------
(* Aggregation handlers of src/backend/main.go (snapshot and answer at once) *)

frame == <<program, now, logStore, dbLogs, inMemoryDB, pending, ui, mu, catRule, catResult>>

summaryStatsHandler ==
    /\ program = "main"
    /\ resp = NoResp
    /\ resp' = [op |-> "summary", status |-> 200, body |-> summaryStats(sourceOf(logStore))]
    /\ UNCHANGED frame

urgencyDataHandler ==
    /\ program = "main"
    /\ resp = NoResp
    /\ resp' = [op |-> "urgency", status |-> 200, body |-> urgencyData(sourceOf(logStore))]
    /\ UNCHANGED frame

timelineDataHandler ==
    /\ program = "main"
    /\ resp = NoResp
    /\ resp' = [op |-> "timeline", status |-> 200, body |-> timelineData(sourceOf(logStore), now)]
    /\ UNCHANGED frame

topEventsHandler ==
    /\ program = "main"
    /\ resp = NoResp
    /\ \E list \in topEvents(sourceOf(logStore)) :
          resp' = [op |-> "topEvents", status |-> 200, body |-> list]
    /\ UNCHANGED frame

topSourcesHandler ==
    /\ program = "main"
    /\ resp = NoResp
    /\ \E list \in topSources(sourceOf(logStore)) :
          resp' = [op |-> "topSources", status |-> 200, body |-> list]
    /\ UNCHANGED frame

---------------------------------------------------------------------------
(* Aggregation handlers of the database backend (part_003) *)

summaryStatsHandlerDB ==
    /\ program = "db"
    /\ resp = NoResp
    /\ resp' = [op |-> "summary", status |-> 200, body |-> GetSummaryStats(dbLogs)]
    /\ UNCHANGED frame

urgencyDataHandlerDB ==
    /\ program = "db"
    /\ resp = NoResp
    /\ resp' = [op |-> "urgency", status |-> 200, body |-> GetUrgencyData(dbLogs, now)]
    /\ UNCHANGED frame

timelineDataHandlerDB ==
    /\ program = "db"
    /\ resp = NoResp
    /\ resp' = [op |-> "timeline", status |-> 200, body |-> GetTimelineData(dbLogs, now)]
    /\ UNCHANGED frame

topEventsHandlerDB ==
    /\ program = "db"
    /\ resp = NoResp
    /\ \E list \in GetTopEvents(dbLogs) :
          resp' = [op |-> "topEvents", status |-> 200, body |-> list]
    /\ UNCHANGED frame

topSourcesHandlerDB ==
    /\ program = "db"
    /\ resp = NoResp
    /\ \E list \in GetTopSources(dbLogs) :
          resp' = [op |-> "topSources", status |-> 200, body |-> list]
    /\ UNCHANGED frame

\* A *HandlerDB whose query returns an error: 500 and an error body.
handlerDBFails(op) ==
    /\ program = "db"
    /\ resp = NoResp
    /\ resp' = [op |-> op, status |-> 500]
    /\ UNCHANGED frame

---------------------------------------------------------------------------
(* Search *)

\* logSearchHandler of src/backend/main.go: the entries that pass both
\* filters, in the order of logStore.logs.
logSearch(logs, ip, event) ==
    SelectSeq(logs, LAMBDA log :
        /\ ~(ip # <<>> /\ log.SourceIP # ip)
        /\ ~(event # <<>> /\ ~Contains(ToLower(log.RuleName), ToLower(event))))

logSearchHandler(q) ==
    /\ program = "main"
    /\ resp = NoResp
    /\ resp' = [op |-> "search", status |-> 200, req |-> q, null |-> FALSE,
                body |-> logSearch(logStore, q.ip, q.event)]
    /\ UNCHANGED frame

\* The value of a decimal digit.
digitVal ==
    [c \in {"0", "1", "2", "3", "4", "5", "6", "7", "8", "9"} |->
        CASE c = "0" -> 0 [] c = "1" -> 1 [] c = "2" -> 2 [] c = "3" -> 3 [] c = "4" -> 4
          [] c = "5" -> 5 [] c = "6" -> 6 [] c = "7" -> 7 [] c = "8" -> 8 [] c = "9" -> 9]

\* strconv.Atoi for the short strings explored: an optional sign followed by
\* one or more decimal digits, anything else is an error.
RECURSIVE atoiDigits(_, _)
atoiDigits(s, acc) ==
    IF s = <<>> THEN acc ELSE atoiDigits(Tail(s), acc * 10 + digitVal[Head(s)])

Atoi(s) ==
    LET signed == s # <<>> /\ Head(s) \in {"+", "-"}
        digits == IF signed THEN Tail(s) ELSE s
        ok == digits # <<>> /\ \A i \in 1..Len(digits) : digits[i] \in DOMAIN digitVal
    IN IF ~ok THEN [err |-> TRUE, val |-> 0]
       ELSE [err |-> FALSE,
             val |-> IF signed /\ Head(s) = "-" THEN 0 - atoiDigits(digits, 0)
                     ELSE atoiDigits(digits, 0)]

\* searchLimit that takes every parsed number as the limit.
searchLimitUnchecked(limitStr) ==
    IF limitStr # <<>> /\ ~Atoi(limitStr).err
    THEN Atoi(limitStr).val
    ELSE 100

\* limit := 100; if limitStr != "" { if l, err := strconv.Atoi(limitStr); err == nil && l > 0 && l <= 1000 { limit = l } }
searchLimit(limitStr) ==
    IF limitStr # <<>> /\ ~Atoi(limitStr).err /\ Atoi(limitStr).val > 0 /\ Atoi(limitStr).val <= 1000
    THEN Atoi(limitStr).val
    ELSE 100

\* logSearchHandlerDB of part_003, the query succeeded. `var logs []LogEntry`
\* stays nil when no row matches and is then encoded as null.
logSearchHandlerDB(q) ==
    /\ program = "db"
    /\ resp = NoResp
    /\ \E logs \in SearchLogs(dbLogs, q.ip, q.event, searchLimit(q.limit)) :
          resp' = [op |-> "search", status |-> 200, req |-> q, null |-> logs = <<>>,
                   body |-> logs]
    /\ UNCHANGED frame

---------------------------------------------------------------------------
(* Metrics *)

\* levelCounts[log.Level]++ for every entry, then one line per key in the
\* iteration order of the map.
countLines(logs, key(_)) ==
    LET keys == firstSeen(logs, key, <<>>)
    IN { [j \in 1..Len(order) |->
            [label |-> order[j], count |-> CountIf(logs, LAMBDA e : key(e) = order[j])]] :
         order \in mapOrders(keys) }

\* int(time.Since(startTime).Seconds()), the process having started at StartTime.
uptimeSeconds(t) == (t - StartTime) * 60

\* metricsHandler of src/backend/main.go.
metricsHandler ==
    /\ program = "main"
    /\ resp = NoResp
    /\ \E byLevel \in countLines(logStore, LAMBDA e : e.Level),
          byRule \in countLines(logStore, LAMBDA e : e.RuleName) :
          resp' = [op |-> "metrics", status |-> 200,
                   body |-> [total |-> Len(logStore), byLevel |-> byLevel,
                             byRule |-> byRule, uptime |-> uptimeSeconds(now)]]
    /\ UNCHANGED frame

\* metricsHandler of part_003, the database server: it reads logStore, which
\* logIngestHandlerDB does not write, and not the table.
metricsHandlerOfDBServer ==
    /\ program = "db"
    /\ resp = NoResp
    /\ \E byLevel \in countLines(logStore, LAMBDA e : e.Level),
          byRule \in countLines(logStore, LAMBDA e : e.Rule) :
          resp' = [op |-> "metrics", status |-> 200,
                   body |-> [total |-> Len(logStore), byLevel |-> byLevel,
                             byRule |-> byRule, uptime |-> uptimeSeconds(now)]]
    /\ UNCHANGED frame

\* InMemoryDB.GetAll
GetAll(logs) == logs

\* metricsHandler of part_001: no per-rule lines.
metricsHandlerOfInMemoryDB ==
    /\ program = "imdb"
    /\ resp = NoResp
    /\ \E byLevel \in countLines(GetAll(inMemoryDB), LAMBDA e : e.Level) :
          resp' = [op |-> "metrics", status |-> 200,
                   body |-> [total |-> Len(GetAll(inMemoryDB)), byLevel |-> byLevel,
                             byRule |-> <<>>, uptime |-> uptimeSeconds(now)]]
    /\ UNCHANGED frame

---------------------------------------------------------------------------
(* Filtered retrieval of part_001 *)

\* InMemoryDB.Filter with both time bounds exclusive.
FilterExclusive(logs, level, keyword, from, to) ==
    SelectSeq(logs, LAMBDA e :
        /\ ~(level # "" /\ e.Level # level)
        /\ ~(~IsZero(from) /\ e.Timestamp <= from)
        /\ ~(~IsZero(to) /\ e.Timestamp >= to)
        /\ ~(keyword # <<>> /\ ~Contains(e.Message, keyword)))

\* InMemoryDB.Filter: the loop skips (continue) an entry on the first of its
\* four tests that fails and appends the others in the order of db.logs.
Filter(logs, level, keyword, from, to) ==
    SelectSeq(logs, LAMBDA e :
        /\ ~(level # "" /\ e.Level # level)
        /\ ~(~IsZero(from) /\ e.Timestamp < from)
        /\ ~(~IsZero(to) /\ e.Timestamp > to)
        /\ ~(keyword # <<>> /\ ~Contains(e.Message, keyword)))

\* Values of the from and to parameters of GET /api/logs of part_001: absent,
\* not RFC 3339, or the RFC 3339 text of an instant (0 is 0001-01-01T00:00:00Z).
timeParams ==
    { [text |-> "", instant |-> 0], [text |-> "yesterday", instant |-> 0] }
    \cup { [text |-> "RFC3339", instant |-> t] : t \in {0, StartTime - Hour, StartTime} }

\* Query strings of GET /api/logs sent to part_001.
queriesInMemoryDB ==
    LET absent == [text |-> "", instant |-> 0]
    IN { [level |-> "", keyword |-> <<>>, from |-> f, to |-> t] : f, t \in timeParams }
       \cup { [level |-> l, keyword |-> k, from |-> absent, to |-> absent] :
                l \in {"", "ERROR", "error"}, k \in {<<>>, KwLogin, <<"D", "i", "s", "k">>} }
       \cup { [level |-> "ERROR", keyword |-> <<"d", "i", "s", "k">>,
               from |-> [text |-> "RFC3339", instant |-> StartTime - Hour],
               to |-> [text |-> "RFC3339", instant |-> StartTime]] }

\* logsAPIHandler of part_001: a parameter that is present and does not parse
\* answers 400 (from is looked at first); `var from, to time.Time` stay zero
\* for absent parameters; a nil result is encoded as null.
logsAPIHandler(q) ==
    /\ program = "imdb"
    /\ resp = NoResp
    /\ resp' = IF \E p \in {q.from, q.to} : p.text \notin {"", "RFC3339"}
               THEN [op |-> "logs", status |-> 400, req |-> q]
               ELSE LET logs == Filter(inMemoryDB, q.level, q.keyword, q.from.instant, q.to.instant)
                    IN [op |-> "logs", status |-> 200, req |-> q,
                        null |-> (logs = <<>>), body |-> logs]
    /\ UNCHANGED frame

---------------------------------------------------------------------------
(* The specification of the three programs *)

Next ==
    \/ \E body \in bodiesMain : logIngestHandler(body)
    \/ \E body \in bodiesDB : logIngestHandlerDB(body)
    \/ \E body \in bodiesInMemoryDB : logIngestHandlerInMemoryDB(body)
    \/ logIngestHandlerDBFails
    \/ \E status \in {400, 405} : logIngestRejected(status)
    \/ \E d \in {Hour, Day} : Tick(d)
    \/ Deliver
    \/ summaryStatsHandler
    \/ urgencyDataHandler
    \/ timelineDataHandler
    \/ topEventsHandler
    \/ topSourcesHandler
    \/ summaryStatsHandlerDB
    \/ urgencyDataHandlerDB
    \/ timelineDataHandlerDB
    \/ topEventsHandlerDB
    \/ topSourcesHandlerDB
    \/ \E op \in {"summary", "urgency", "timeline", "topEvents", "topSources", "search"} : handlerDBFails(op)
    \/ \E q \in queriesMain : logSearchHandler(q)
    \/ \E q \in queriesDB : logSearchHandlerDB(q)
    \/ metricsHandler
    \/ metricsHandlerOfDBServer
    \/ metricsHandlerOfInMemoryDB
    \/ \E q \in queriesInMemoryDB : logsAPIHandler(q)

Spec == Init /\ [][Next]_vars

---------------------------------------------------------------------------
(* The same programs serving one kind of read request.  Only the ingest
   writes a store, so the stores these specifications reach are stores of
   Spec and the responses are the ones Spec gives on them. *)

\* POST /api/logs and GET /api/stats/timeline (main.go), /api/timeline
\* (part_003); requests are up to MaxTicks hours apart.
NextTimeline ==
    \/ \E body \in bodiesMain : logIngestHandler(body)
    \/ \E body \in bodiesDB : logIngestHandlerDB(body)
    \/ \E body \in bodiesInMemoryDB : logIngestHandlerInMemoryDB(body)
    \/ logIngestHandlerDBFails
    \/ \E status \in {400, 405} : logIngestRejected(status)
    \/ Tick(Hour)
    \/ Deliver
    \/ timelineDataHandler
    \/ timelineDataHandlerDB

SpecTimeline == Init /\ [][NextTimeline]_vars

\* The two programs that route GET /api/logs.
InitSearch ==
    /\ Init
    /\ program \in {"main", "db"}

\* POST /api/logs and GET /api/logs; requests are up to MaxTicks hours apart.
NextSearch ==
    \/ \E body \in bodiesMain : logIngestHandler(body)
    \/ \E body \in bodiesDB : logIngestHandlerDB(body)
    \/ Tick(Hour)
    \/ Deliver
    \/ \E q \in queriesMain : logSearchHandler(q)
    \/ \E q \in queriesDB : logSearchHandlerDB(q)
    \/ handlerDBFails("search")

SpecSearch == InitSearch /\ [][NextSearch]_vars

\* The two programs that keep their entries in a slice in memory.
InitInMemory ==
    /\ Init
    /\ program \in {"main", "imdb"}

\* Every route of src/backend/main.go, and POST /logs, GET /api/logs and
\* GET /metrics of part_001; requests are up to MaxTicks hours apart.
NextInMemory ==
    \/ \E body \in bodiesMain : logIngestHandler(body)
    \/ \E body \in bodiesInMemoryDB : logIngestHandlerInMemoryDB(body)
    \/ \E status \in {400, 405} : logIngestRejected(status)
    \/ Tick(Hour)
    \/ Deliver
    \/ summaryStatsHandler
    \/ urgencyDataHandler
    \/ timelineDataHandler
    \/ topEventsHandler
    \/ topSourcesHandler
    \/ \E q \in queriesMain : logSearchHandler(q)
    \/ metricsHandler
    \/ metricsHandlerOfInMemoryDB
    \/ \E q \in queriesInMemoryDB : logsAPIHandler(q)

SpecInMemory == InitInMemory /\ [][NextInMemory]_vars

\* part_001 alone: POST /logs and GET /api/logs.
InitFilter ==
    /\ Init
    /\ program = "imdb"

NextFilter ==
    \/ \E body \in bodiesInMemoryDB : logIngestHandlerInMemoryDB(body)
    \/ Tick(Hour)
    \/ Deliver
    \/ \E q \in queriesInMemoryDB : logsAPIHandler(q)

SpecFilter == InitFilter /\ [][NextFilter]_vars

---------------------------------------------------------------------------
(* The database backend when the storage fails *)

\* GetSummaryStats when rows.Next() fails after k rows: Next returns false,
\* the loop ends as it does after the last row, and the function returns the
\* counts of the k rows with a nil error (rows.Err() is not consulted).
rowsNextFails(k) ==
    /\ program = "db"
    /\ resp = NoResp
    /\ k < Len(dbLogs)
    /\ resp' = [op |-> "summary", status |-> 200, body |-> GetSummaryStats(SubSeq(dbLogs, 1, k))]
    /\ UNCHANGED frame

\* part_003 alone, its table empty.
InitStorage ==
    /\ Init
    /\ program = "db"

\* The routes of part_003, each query succeeding, returning an error, or (the
\* summary) losing its rows on the way.
NextStorage ==
    \/ \E body \in bodiesDB : logIngestHandlerDB(body)
    \/ logIngestHandlerDBFails
    \/ Tick(Hour)
    \/ Deliver
    \/ summaryStatsHandlerDB
    \/ urgencyDataHandlerDB
    \/ timelineDataHandlerDB
    \/ topEventsHandlerDB
    \/ topSourcesHandlerDB
    \/ \E op \in {"summary", "urgency", "timeline", "topEvents", "topSources", "search"} : handlerDBFails(op)
    \/ \E k \in 0..(MaxLogs - 1) : rowsNextFails(k)

SpecStorage == InitStorage /\ [][NextStorage]_vars

---------------------------------------------------------------------------
(* The categorisation as a pure function: it is applied to rule names built
   from up to MaxFragments fragments. *)

fragments ==
    { <<"L", "o", "g">>, <<"i", "n">>, <<"L", "O", "G", "I", "N">>,
      <<"A", "c", "c", "e", "s", "s">>, <<"N", "e", "t", "w", "o", "r", "k">>,
      <<"t", "r", "a", "f", "f", "i", "c">>, <<"T", "h", "r", "e", "a", "t">>,
      <<"M", "A", "L", "w", "a", "r", "e">>, <<"b", "e", "h", "a", "v", "i", "o", "r">>,
      <<"U", "B", "A">>, <<" ", "x">> }

RECURSIVE ruleNames(_)
ruleNames(n) ==
    IF n = 0 THEN {<<>>}
    ELSE ruleNames(n - 1) \cup { a \o f : a \in ruleNames(n - 1), f \in fragments }

InitCat ==
    /\ program = "db"
    /\ now = StartTime
    /\ logStore = <<>>
    /\ dbLogs = <<>>
    /\ inMemoryDB = <<>>
    /\ resp = NoResp
    /\ pending = <<>>
    /\ ui = noUi
    /\ mu = freeMu
    /\ catRule \in ruleNames(MaxFragments)
    /\ catResult = ""

\* One iteration of the loop of GetSummaryStats on a row whose rule is catRule.
Categorize ==
    /\ catResult = ""
    /\ catResult' = categoryOf(catRule)
    /\ UNCHANGED <<program, now, logStore, dbLogs, inMemoryDB, resp, pending, ui, mu, catRule>>

NextCat == Categorize

SpecCat == InitCat /\ [][NextCat]_vars

---------------------------------------------------------------------------
(* The in-memory handlers of src/backend/main.go step by step: a request
   copies logStore.logs under the read lock, then chooses its source and
   answers from its private copy, while ingests append in between.
   Writing a response touches nothing shared, so the model lets one response
   be written at a time. *)

Reqs == {1, 2}

AggOps == {"summary", "urgency", "timeline", "topEvents", "topSources"}

idleReq == [pc |-> "idle"]

bodiesInterleaved == { b \in bodiesMain : b.Timestamp \in {0, StartTime - 90} }

InitInterleaved ==
    /\ program = "main"
    /\ now = StartTime
    /\ logStore = <<>>
    /\ dbLogs = <<>>
    /\ inMemoryDB = <<>>
    /\ resp = NoResp
    /\ pending = [r \in Reqs |-> idleReq]
    /\ ui = noUi
    /\ mu = freeMu
    /\ catRule = <<>>
    /\ catResult = ""

\* logStore.mu.RLock(); logs := make(...); copy(logs, logStore.logs); logStore.mu.RUnlock()
\* `seen` remembers how many entries had been appended when the copy was taken.
snapshot(r, op) ==
    /\ program = "main"
    /\ resp = NoResp
    /\ pending[r].pc = "idle"
    /\ pending' = [pending EXCEPT ![r] =
                      [pc |-> "copied", op |-> op, logs |-> logStore, seen |-> Len(logStore)]]
    /\ UNCHANGED <<program, now, logStore, dbLogs, inMemoryDB, resp, ui, mu, catRule, catResult>>

\* The bodies a handler can write for its source at time t.
bodiesOf(op, source, t) ==
    CASE op = "summary" -> {summaryStats(source)}
      [] op = "urgency" -> {urgencyData(source)}
      [] op = "timeline" -> {timelineData(source, t)}
      [] op = "topEvents" -> topEvents(source)
      [] op = "topSources" -> topSources(source)

\* The rest of the handler: choose the source, aggregate, write the response.
answer(r) ==
    /\ program = "main"
    /\ resp = NoResp
    /\ pending[r].pc = "copied"
    /\ LET source == sourceOf(pending[r].logs) IN
          /\ pending' = [pending EXCEPT ![r] =
                            [pc |-> "answered", op |-> @.op, logs |-> @.logs,
                             seen |-> @.seen, source |-> source]]
          /\ \E body \in bodiesOf(pending[r].op, source, now) :
                resp' = [op |-> pending[r].op, status |-> 200, body |-> body]
    /\ UNCHANGED <<program, now, logStore, dbLogs, inMemoryDB, ui, mu, catRule, catResult>>

\* The response has been written; a request that has answered is over.
deliverInterleaved ==
    /\ resp # NoResp
    /\ resp' = NoResp
    /\ pending' = [r \in Reqs |-> IF pending[r].pc = "answered" THEN idleReq ELSE pending[r]]
    /\ UNCHANGED <<program, now, logStore, dbLogs, inMemoryDB, ui, mu, catRule, catResult>>

NextInterleaved ==
    \/ \E body \in bodiesInterleaved : logIngestHandler(body)
    \/ \E r \in Reqs, op \in AggOps : snapshot(r, op)
    \/ \E r \in Reqs : answer(r)
    \/ deliverInterleaved

SpecInterleaved == InitInterleaved /\ [][NextInterleaved]_vars

---------------------------------------------------------------------------
(* The dashboard (part_005, part_006, part_007) in front of the database
   backend, whose routes /api/top-events and /api/logs it calls: the Top
   Events table and the drilldown on one of its rows. *)

\* Entries ingested while the dashboard is watched; rule and event agree.
bodiesDrilldown ==
    LET base == [Timestamp |-> 0, Level |-> "", Rule |-> SuspiciousLoginAttempt,
                 SourceIP |-> Ip192_168_1_100, DestinationIP |-> <<>>,
                 Event |-> SuspiciousLoginAttempt, Description |-> <<>>, Urgency |-> 4]
    IN { base,
         [base EXCEPT !.Rule = PortScan, !.Event = PortScan, !.Urgency = 2],
         [base EXCEPT !.Rule = PortScanner, !.Event = PortScanner, !.Urgency = 2,
                      !.SourceIP = Ip10_0_0_1] }

\* URLSearchParams.toString for one value, on the characters explored:
\* a space becomes "+", "+" and "%" are percent-encoded, letters and digits
\* stay.
RECURSIVE queryEscape(_)
queryEscape(s) ==
    IF s = <<>> THEN <<>>
    ELSE (CASE Head(s) = " " -> <<"+">>
            [] Head(s) = "+" -> <<"%", "2", "B">>
            [] Head(s) = "%" -> <<"%", "2", "5">>
            [] OTHER -> <<Head(s)>>) \o queryEscape(Tail(s))

\* r.URL.Query().Get on such a value: "+" is a space, %2B is "+", %25 is "%".
RECURSIVE queryUnescape(_)
queryUnescape(s) ==
    IF s = <<>> THEN <<>>
    ELSE IF Head(s) = "+" THEN <<" ">> \o queryUnescape(Tail(s))
    ELSE IF Len(s) >= 3 /\ SubSeq(s, 1, 3) = <<"%", "2", "B">>
         THEN <<"+">> \o queryUnescape(SubSeq(s, 4, Len(s)))
    ELSE IF Len(s) >= 3 /\ SubSeq(s, 1, 3) = <<"%", "2", "5">>
         THEN <<"%">> \o queryUnescape(SubSeq(s, 4, Len(s)))
    ELSE <<Head(s)>> \o queryUnescape(Tail(s))

\* api.searchLogs(ip, event) as the server reads it: a parameter is sent only
\* when its value is truthy (not undefined, not ""), an absent one reads "".
searchLogsQuery(ip, event) ==
    [ip |-> queryUnescape(queryEscape(ip)), event |-> queryUnescape(queryEscape(event)),
     limit |-> <<>>]

InitDrilldown ==
    /\ program = "db"
    /\ now = StartTime
    /\ logStore = <<>>
    /\ dbLogs = <<>>
    /\ inMemoryDB = <<>>
    /\ resp = NoResp
    /\ pending = <<>>
    /\ ui = noUi
    /\ mu = freeMu
    /\ catRule = <<>>
    /\ catResult = ""

\* The browser takes the response: setTopEvents(events) for the Top Events
\* list; the logs of a drilldown go to the modal.
receive ==
    /\ resp # NoResp
    /\ resp' = NoResp
    /\ ui' = IF resp.op = "topEvents" /\ resp.status = 200
             THEN [ui EXCEPT !.events = resp.body]
             ELSE ui
    /\ UNCHANGED <<program, now, logStore, dbLogs, inMemoryDB, pending, mu, catRule, catResult>>

\* onClick={() => setDrilldown(event.ruleName)} on row i; a truthy rule name
\* mounts DrilldownModal, whose effect calls api.searchLogs(undefined, ruleName),
\* answered by logSearchHandlerDB.
clickRow(i) ==
    /\ program = "db"
    /\ resp = NoResp
    /\ ui.drilldown = <<>>
    /\ i \in 1..Len(ui.events)
    /\ ui' = [ui EXCEPT !.drilldown = ui.events[i].ruleName]
    /\ IF ui.events[i].ruleName = <<>>
       THEN resp' = resp
       ELSE LET q == searchLogsQuery(<<>>, ui.events[i].ruleName) IN
            \E logs \in SearchLogs(dbLogs, q.ip, q.event, searchLimit(q.limit)) :
                resp' = [op |-> "search", status |-> 200, req |-> q, null |-> logs = <<>>,
                         body |-> logs]
    /\ UNCHANGED <<program, now, logStore, dbLogs, inMemoryDB, pending, mu, catRule, catResult>>

\* onClose={() => setDrilldown(null)}
closeDrilldown ==
    /\ resp = NoResp
    /\ ui.drilldown # <<>>
    /\ ui' = [ui EXCEPT !.drilldown = <<>>]
    /\ UNCHANGED <<program, now, logStore, dbLogs, inMemoryDB, resp, pending, mu, catRule, catResult>>

NextDrilldown ==
    \/ \E body \in bodiesDrilldown : logIngestHandlerDB(body)
    \/ topEventsHandlerDB
    \/ receive
    \/ \E i \in 1..MaxLogs : clickRow(i)
    \/ closeDrilldown

SpecDrilldown == InitDrilldown /\ [][NextDrilldown]_vars


---------------------------------------------------------------------------
(* The Dashboard component (part_007) with its children TopEventsTable
   (part_006) and LogSearch (part_008).  `ui` holds the React state: the
   useState values of Dashboard, and currentPage and drilldown of
   TopEventsTable.  The backend is any server that answers or fails; a Top
   Events answer is the number of its rows, a search answer the number of
   its logs.  ui.before is the view at the moment the fetch in flight was
   started; it is written for the properties and read by no action. *)

\* const REFRESH_OPTIONS = [5, 10, 15, 30];
REFRESH_OPTIONS == {5, 10, 15, 30}

\* const itemsPerPage = 5;
itemsPerPage == 5

\* Math.ceil(events.length / itemsPerPage)
totalPages(n) == (n + itemsPerPage - 1) \div itemsPerPage

\* The full tree is returned only after `if (loading)` and `if (error)`.
rendered == ~ui.loading /\ ~ui.error

noView == [by |-> "none", currentPage |-> 1, drilldown |-> 0]

\* The first render: useState(true) for loading, 30 for refreshInterval, and
\* the effect has called fetchData().
InitDashboard ==
    /\ program = "db"
    /\ now = StartTime
    /\ logStore = <<>>
    /\ dbLogs = <<>>
    /\ inMemoryDB = <<>>
    /\ resp = NoResp
    /\ pending = <<>>
    /\ ui = [loading |-> TRUE, error |-> FALSE, refreshInterval |-> 30, inFlight |-> TRUE,
             topEvents |-> 0, currentPage |-> 1, drilldown |-> 0,
             searchIp |-> <<>>, searchEvent |-> <<>>, searchResults |-> <<>>,
             searchLoading |-> FALSE, searchError |-> FALSE,
             before |-> [by |-> "mount", currentPage |-> 1, drilldown |-> 0]]
    /\ mu = freeMu
    /\ catRule = <<>>
    /\ catResult = ""

\* fetchData that also forgets the search, as the commented line of
\* handleHome would.
fetchDataClearsSearch(v) ==
    /\ ~ui.inFlight
    /\ v # ui.refreshInterval => rendered
    /\ ui' = [ui EXCEPT !.refreshInterval = v, !.loading = TRUE, !.inFlight = TRUE,
                        !.currentPage = 1, !.drilldown = 0,
                        !.searchIp = <<>>, !.searchEvent = <<>>, !.searchResults = <<>>,
                        !.searchError = FALSE,
                        !.before = [by |-> IF v = ui.refreshInterval THEN "timer" ELSE "select",
                                    currentPage |-> ui.currentPage, drilldown |-> ui.drilldown]]
    /\ UNCHANGED <<program, now, logStore, dbLogs, inMemoryDB, resp, pending, mu, catRule, catResult>>

\* fetchData is called: by the timer of setInterval(fetchData, refreshInterval
\* * 1000) (v is the current interval), or by the effect that runs again when
\* the select sets another interval v.  setLoading(true) makes Dashboard
\* return the "Loading dashboard..." element alone: TopEventsTable is
\* unmounted and its state is gone; the next mount starts from useState(1)
\* and useState(null).  One fetch is in flight at a time.
fetchData(v) ==
    /\ ~ui.inFlight
    /\ v # ui.refreshInterval => rendered
    /\ ui' = [ui EXCEPT !.refreshInterval = v, !.loading = TRUE, !.inFlight = TRUE,
                        !.currentPage = 1, !.drilldown = 0,
                        !.before = [by |-> IF v = ui.refreshInterval THEN "timer" ELSE "select",
                                    currentPage |-> ui.currentPage, drilldown |-> ui.drilldown]]
    /\ UNCHANGED <<program, now, logStore, dbLogs, inMemoryDB, resp, pending, mu, catRule, catResult>>

\* Promise.all settles: with the five answers (n rows of Top Events) or with
\* the rejection of one of them; finally setLoading(false).
fetchSettles(ok, n) ==
    /\ ui.inFlight
    /\ ui' = [ui EXCEPT !.topEvents = IF ok THEN n ELSE @, !.error = ~ok,
                        !.loading = FALSE, !.inFlight = FALSE, !.before = noView]
    /\ UNCHANGED <<program, now, logStore, dbLogs, inMemoryDB, resp, pending, mu, catRule, catResult>>

\* The Previous and Next buttons, shown when totalPages > 1.
setCurrentPage(page) ==
    /\ rendered
    /\ totalPages(ui.topEvents) > 1
    /\ page \in {IF ui.currentPage - 1 > 1 THEN ui.currentPage - 1 ELSE 1,
                 IF ui.currentPage + 1 < totalPages(ui.topEvents)
                 THEN ui.currentPage + 1 ELSE totalPages(ui.topEvents)}
    /\ page # ui.currentPage
    /\ ui' = [ui EXCEPT !.currentPage = page]
    /\ UNCHANGED <<program, now, logStore, dbLogs, inMemoryDB, resp, pending, mu, catRule, catResult>>

\* onClick={() => setDrilldown(event.ruleName)} on row i of events.slice(startIndex, endIndex)
setDrilldown(i) ==
    /\ rendered
    /\ i > (ui.currentPage - 1) * itemsPerPage
    /\ i <= (ui.currentPage - 1) * itemsPerPage + itemsPerPage
    /\ i <= ui.topEvents
    /\ ui' = [ui EXCEPT !.drilldown = i]
    /\ UNCHANGED <<program, now, logStore, dbLogs, inMemoryDB, resp, pending, mu, catRule, catResult>>

\* onClose={() => setDrilldown(null)}
onClose ==
    /\ rendered
    /\ ui.drilldown # 0
    /\ ui' = [ui EXCEPT !.drilldown = 0]
    /\ UNCHANGED <<program, now, logStore, dbLogs, inMemoryDB, resp, pending, mu, catRule, catResult>>

\* onChange={e => setIp(e.target.value)} and setEvent of LogSearch
setSearchIp(ip) ==
    /\ rendered
    /\ ip # ui.searchIp
    /\ ui' = [ui EXCEPT !.searchIp = ip]
    /\ UNCHANGED <<program, now, logStore, dbLogs, inMemoryDB, resp, pending, mu, catRule, catResult>>

setSearchEvent(event) ==
    /\ rendered
    /\ event # ui.searchEvent
    /\ ui' = [ui EXCEPT !.searchEvent = event]
    /\ UNCHANGED <<program, now, logStore, dbLogs, inMemoryDB, resp, pending, mu, catRule, catResult>>

\* handleSearch up to its await; the submit button is disabled while loading.
handleSearch ==
    /\ rendered
    /\ ~ui.searchLoading
    /\ ui' = [ui EXCEPT !.searchLoading = TRUE, !.searchError = FALSE]
    /\ UNCHANGED <<program, now, logStore, dbLogs, inMemoryDB, resp, pending, mu, catRule, catResult>>

\* api.searchLogs settles: setSearchResults(logs) with n logs, or
\* setSearchError; finally setSearchLoading(false).
searchSettles(ok, n) ==
    /\ ui.searchLoading
    /\ ui' = [ui EXCEPT !.searchResults = IF ok THEN [i \in 1..n |-> i] ELSE @,
                        !.searchError = ~ok, !.searchLoading = FALSE]
    /\ UNCHANGED <<program, now, logStore, dbLogs, inMemoryDB, resp, pending, mu, catRule, catResult>>

NextDashboard ==
    \/ \E v \in REFRESH_OPTIONS : fetchData(v)
    \/ \E ok \in BOOLEAN, n \in {0, itemsPerPage + 1} : fetchSettles(ok, n)
    \/ \E page \in 1..2 : setCurrentPage(page)
    \/ \E i \in 1..(itemsPerPage + 1) : setDrilldown(i)
    \/ onClose
    \/ \E ip \in {<<>>, Ip10_0_0_1} : setSearchIp(ip)
    \/ \E event \in {<<>>, KwLogin} : setSearchEvent(event)
    \/ handleSearch
    \/ \E ok \in BOOLEAN, n \in 0..2 : searchSettles(ok, n)

SpecDashboard == InitDashboard /\ [][NextDashboard]_vars

---------------------------------------------------------------------------
(* The in-memory stores under their sync.RWMutex, lock step by lock step:
   logStore of src/backend/main.go (readers: the aggregations, search and
   metrics) and InMemoryDB of part_001 (Add, GetAll). *)

Readers == {"r1", "r2"}

Writers == {"w1"}

idleProc == [pc |-> "idle"]

bodiesLocked ==
    IF program = "main" THEN bodiesInterleaved
    ELSE { b \in bodiesInMemoryDB : b.Timestamp \in {0, StartTime - Hour} }

InitLocked ==
    /\ program \in {"main", "imdb"}
    /\ now = StartTime
    /\ logStore = <<>>
    /\ dbLogs = <<>>
    /\ inMemoryDB = <<>>
    /\ resp = NoResp
    /\ pending = [p \in Readers \cup Writers |-> idleProc]
    /\ ui = noUi
    /\ mu = freeMu
    /\ catRule = <<>>
    /\ catResult = ""

lockedFrame == <<program, now, dbLogs, resp, ui, catRule, catResult>>

\* RWMutex.RLock returns when no goroutine holds the write lock or is blocked
\* in RWMutex.Lock: a blocked Lock call keeps new readers out.
canRLockAlways(m) == TRUE

canRLockIgnoringWaiters(m) == m.writer = "none"

canRLock(m) == m.writer = "none" /\ m.waiting = {}

\* RWMutex.Lock returns when no goroutine holds the lock in either mode.
canLock(m) == m.writer = "none" /\ m.readers = {}

\* The ingest handler has decoded a valid entry and filled its defaults.
decode(w, body) ==
    /\ pending[w].pc = "idle"
    /\ Len(stored) < MaxLogs
    /\ pending' = [pending EXCEPT ![w] =
                      [pc |-> "decoded", entry |-> fillMetadata(fillDefaults(body, now))]]
    /\ UNCHANGED <<lockedFrame, logStore, inMemoryDB, mu>>

\* logStore.mu.Lock() is called ...
Lock(w) ==
    /\ pending[w].pc = "decoded"
    /\ mu' = [mu EXCEPT !.waiting = @ \cup {w}]
    /\ pending' = [pending EXCEPT ![w].pc = "waiting"]
    /\ UNCHANGED <<lockedFrame, logStore, inMemoryDB>>

\* ... and returns.
acquire(w) ==
    /\ pending[w].pc = "waiting"
    /\ canLock(mu)
    /\ mu' = [mu EXCEPT !.waiting = @ \ {w}, !.writer = w]
    /\ pending' = [pending EXCEPT ![w].pc = "locked"]
    /\ UNCHANGED <<lockedFrame, logStore, inMemoryDB>>

\* logStore.logs = append(logStore.logs, entry): the slice grows ...
appendBegin(w) ==
    /\ pending[w].pc = "locked"
    /\ IF program = "main"
       THEN logStore' = Append(logStore, pending[w].entry) /\ UNCHANGED inMemoryDB
       ELSE inMemoryDB' = Add(inMemoryDB, pending[w].entry) /\ UNCHANGED logStore
    /\ pending' = [pending EXCEPT ![w].pc = "appending"]
    /\ UNCHANGED <<lockedFrame, mu>>

\* ... and the statement is complete.
appendEnd(w) ==
    /\ pending[w].pc = "appending"
    /\ pending' = [pending EXCEPT ![w].pc = "appended"]
    /\ UNCHANGED <<lockedFrame, logStore, inMemoryDB, mu>>

\* logStore.mu.Unlock()
Unlock(w) ==
    /\ pending[w].pc = "appended"
    /\ mu' = [mu EXCEPT !.writer = "none"]
    /\ pending' = [pending EXCEPT ![w].pc = "unlocked"]
    /\ UNCHANGED <<lockedFrame, logStore, inMemoryDB>>

\* w.WriteHeader(http.StatusCreated)
respond201(w) ==
    /\ pending[w].pc = "unlocked"
    /\ pending' = [pending EXCEPT ![w] = [pc |-> "responded"]]
    /\ UNCHANGED <<lockedFrame, logStore, inMemoryDB, mu>>

\* The next request of the client.
nextRequest(w) ==
    /\ pending[w].pc = "responded"
    /\ pending' = [pending EXCEPT ![w] = idleProc]
    /\ UNCHANGED <<lockedFrame, logStore, inMemoryDB, mu>>

\* logStore.mu.RLock() of a read request.
RLock(r, op) ==
    /\ pending[r].pc = "idle"
    /\ canRLock(mu)
    /\ mu' = [mu EXCEPT !.readers = @ \cup {r}]
    /\ pending' = [pending EXCEPT ![r] = [pc |-> "rlocked", op |-> op]]
    /\ UNCHANGED <<lockedFrame, logStore, inMemoryDB>>

\* A read that answers from a copy kept since before the last append.
copyCached(r) ==
    /\ pending[r].pc = "rlocked"
    /\ pending' = [pending EXCEPT ![r] =
                      [pc |-> "copied", op |-> @.op,
                       logs |-> IF stored = <<>> THEN <<>> ELSE SubSeq(stored, 1, Len(stored) - 1),
                       torn |-> FALSE]]
    /\ UNCHANGED <<lockedFrame, logStore, inMemoryDB, mu>>

\* copy(logs, logStore.logs) (the loop over logStore.logs for a search);
\* `torn` tells whether an append was in progress at that moment.
copy(r) ==
    /\ pending[r].pc = "rlocked"
    /\ pending' = [pending EXCEPT ![r] =
                      [pc |-> "copied", op |-> @.op, logs |-> stored,
                       torn |-> \E w \in Writers : pending[w].pc = "appending"]]
    /\ UNCHANGED <<lockedFrame, logStore, inMemoryDB, mu>>

\* logStore.mu.RUnlock()
RUnlock(r) ==
    /\ pending[r].pc = "copied"
    /\ mu' = [mu EXCEPT !.readers = @ \ {r}]
    /\ pending' = [pending EXCEPT ![r].pc = "computing"]
    /\ UNCHANGED <<lockedFrame, logStore, inMemoryDB>>

\* The response of the read request is written.
answerLocked(r) ==
    /\ pending[r].pc = "computing"
    /\ pending' = [pending EXCEPT ![r] = idleProc]
    /\ UNCHANGED <<lockedFrame, logStore, inMemoryDB, mu>>

NextLocked ==
    \/ \E w \in Writers, body \in bodiesLocked : decode(w, body)
    \/ \E w \in Writers : Lock(w)
    \/ \E w \in Writers : acquire(w)
    \/ \E w \in Writers : appendBegin(w)
    \/ \E w \in Writers : appendEnd(w)
    \/ \E w \in Writers : Unlock(w)
    \/ \E w \in Writers : respond201(w)
    \/ \E w \in Writers : nextRequest(w)
    \/ \E r \in Readers, op \in {"summary", "search", "metrics"} : RLock(r, op)
    \/ \E r \in Readers : copy(r)
    \/ \E r \in Readers : RUnlock(r)
    \/ \E r \in Readers : answerLocked(r)

SpecLocked == InitLocked /\ [][NextLocked]_vars

\* Every goroutine that can take its next step eventually takes it; nothing
\* is assumed about when requests arrive.
FairSpecLocked ==
    /\ SpecLocked
    /\ \A w \in Writers :
          /\ WF_vars(Lock(w))
          /\ WF_vars(acquire(w))
          /\ WF_vars(appendBegin(w))
          /\ WF_vars(appendEnd(w))
          /\ WF_vars(Unlock(w))
          /\ WF_vars(respond201(w))
    /\ \A r \in Readers :
          /\ WF_vars(copy(r))
          /\ WF_vars(RUnlock(r))
          /\ WF_vars(answerLocked(r))

---------------------------------------------------------------------------
(* Claims *)

\* The sum of the four totals of a Summary body.
summaryTotal(b) ==
    b.accessNotables.total + b.networkNotables.total
        + b.threatNotables.total + b.ubaNotables.total

\* C1: every Summary answer (in-memory handler and database query) has
\* access + network + threat + uba equal to the number of entries considered:
\* the stored entries, or the seed set when the in-memory store is empty.
C1_SummaryCountsEveryEntry ==
    (resp.op = "summary" /\ resp.status = 200) =>
        summaryTotal(resp.body) =
            IF program = "main"
            THEN (IF logStore = <<>> THEN Len(mockEvents) ELSE Len(logStore))
            ELSE Len(dbLogs)

\* Whether rule contains the lower-case keyword kw at some position, letters
\* compared without regard to case.
containsFold(rule, kw) ==
    \E i \in 1..Len(rule) :
        /\ i + Len(kw) - 1 <= Len(rule)
        /\ \A k \in 1..Len(kw) :
              \/ rule[i + k - 1] = kw[k]
              \/ (rule[i + k - 1] \in DOMAIN LowerOf /\ LowerOf[rule[i + k - 1]] = kw[k])

\* C2: the category of a rule name is the first matching one of: "login" or
\* "access" -> access; "network" or "traffic" -> network; "threat" or
\* "malware" -> threat; "behavior" or "uba" -> uba; nothing -> access. The
\* match is a case-insensitive substring match.
C2_CategoryIsFirstMatch ==
    catResult # "" =>
        LET a == containsFold(catRule, KwLogin) \/ containsFold(catRule, KwAccess)
            n == containsFold(catRule, KwNetwork) \/ containsFold(catRule, KwTraffic)
            t == containsFold(catRule, KwThreat) \/ containsFold(catRule, KwMalware)
            u == containsFold(catRule, KwBehavior) \/ containsFold(catRule, KwUba)
        IN /\ a => catResult = "access"
           /\ (~a /\ n) => catResult = "network"
           /\ (~a /\ ~n /\ t) => catResult = "threat"
           /\ (~a /\ ~n /\ ~t /\ u) => catResult = "uba"
           /\ (~a /\ ~n /\ ~t /\ ~u) => catResult = "access"

\* A rule name "LOGINThreat..." (upper-case login, also a threat) categorised as access.
C2_Witness ==
    /\ catResult = "access"
    /\ Len(catRule) >= 11
    /\ SubSeq(catRule, 1, 11) = <<"L", "O", "G", "I", "N", "T", "h", "r", "e", "a", "t">>

\* C3: after ingests, TopEvents has exactly one element per distinct stored
\* rule name (the key Summary categorises) and its count is the number of
\* stored entries with that rule name.
C3_TopEventsGroupsByRuleName ==
    (resp.op = "topEvents" /\ resp.status = 200 /\ stored # <<>>) =>
        LET rules == { storedRuleName(stored[i]) : i \in 1..Len(stored) }
        IN /\ Len(resp.body) = Cardinality(rules)
           /\ \A r \in rules :
                 \E j \in 1..Len(resp.body) :
                     /\ resp.body[j].ruleName = r
                     /\ resp.body[j].count =
                            CountIf(stored, LAMBDA e : storedRuleName(e) = r)

\* C4: every TopEvents and TopSources list is sorted strictly descending by
\* count and has at most 10 elements. Stated for the lists whose counts are
\* pairwise different, where strict and non-strict descending order coincide,
\* so that a violation is a list out of order and not a tie.
C4_TopListsSortedAndCapped ==
    (/\ resp.op \in {"topEvents", "topSources"}
     /\ resp.status = 200
     /\ \A i, j \in 1..Len(resp.body) : i # j => resp.body[i].count # resp.body[j].count) =>
        /\ Len(resp.body) <= 10
        /\ \A i, j \in 1..Len(resp.body) :
              i < j => resp.body[i].count > resp.body[j].count

\* C5: with nothing ingested, Summary, UrgencyHistogram and TopEvents reflect
\* the 8 seed events, on the in-memory routes and the database routes alike.
C5_EmptyStoreAnswersFromSeed ==
    (/\ program \in {"main", "db"}
     /\ stored = <<>>
     /\ resp.op \in {"summary", "urgency", "topEvents"}
     /\ resp.status = 200) =>
        LET cat(c) == CountIf(mockEvents, LAMBDA me : me.Category = c)
            urg(u) == CountIf(mockEvents, LAMBDA me : me.Urgency = u)
        IN /\ resp.op = "summary" =>
                 /\ resp.body.accessNotables.total = cat("access")
                 /\ resp.body.networkNotables.total = cat("network")
                 /\ resp.body.threatNotables.total = cat("threat")
                 /\ resp.body.ubaNotables.total = cat("uba")
           /\ resp.op = "urgency" =>
                 /\ resp.body.critical = urg("critical")
                 /\ resp.body.high = urg("high")
                 /\ resp.body.medium = urg("medium")
                 /\ resp.body.low = urg("low")
           /\ resp.op = "topEvents" =>
                 /\ Len(resp.body) = Len(mockEvents)
                 /\ \A i \in 1..Len(mockEvents) :
                       \E j \in 1..Len(resp.body) :
                           resp.body[j].ruleName = mockEvents[i].RuleName

\* C7: in every backend each stored entry has a non-zero timestamp and a
\* non-empty level (ingest fills in the ingestion time and "INFO").
C7_StoredEntriesHaveTimestampAndLevel ==
    \A store \in {logStore, dbLogs, inMemoryDB} :
        \A i \in 1..Len(store) :
            /\ ~IsZero(store[i].Timestamp)
            /\ store[i].Level # ""

\* An ingest without timestamp and level has just been stored by the database
\* backend with the ingestion time and "INFO".
C7_Witness ==
    /\ program = "db"
    /\ resp.op = "ingest"
    /\ resp.status = 201
    /\ dbLogs # <<>>
    /\ dbLogs[Len(dbLogs)].Timestamp = now
    /\ dbLogs[Len(dbLogs)].Level = "INFO"
    /\ dbLogs[Len(dbLogs)].Urgency = 0

\* C8: every row stored by the database-backed ingest has an urgency in
\* 1..4 (a supplied urgency is kept, a missing one is derived), never 0.
C8_StoredUrgencyInRange ==
    \A i \in 1..Len(dbLogs) : dbLogs[i].Urgency \in 1..4

\* Whether instant ts lies within the 24 hours before instant t.
withinLast24h(ts, t) == t - Day <= ts /\ ts <= t

\* C9: UrgencyHistogram counts exactly the stored entries of the last 24
\* hours: critical + high + medium + low is their number.
C9_UrgencyCountsLast24h ==
    (resp.op = "urgency" /\ resp.status = 200 /\ stored # <<>>) =>
        resp.body.critical + resp.body.high + resp.body.medium + resp.body.low =
            CountIf(stored, LAMBDA e : withinLast24h(e.Timestamp, now))

RECURSIVE sumSeq(_)
sumSeq(seq) == IF seq = <<>> THEN 0 ELSE Head(seq) + sumSeq(Tail(seq))

\* C10: the counts of a Timeline answer, summed over the 24 labels and the 3
\* series, never exceed the number of stored entries of the last 24 hours.
\* Entries stamped later than the call are let count as recent here, so that a
\* violation is an entry older than 24 hours counted in a bucket.
C10_TimelineWithinLast24h ==
    (resp.op = "timeline" /\ resp.status = 200 /\ stored # <<>>) =>
        sumSeq(resp.body.series[1].data) + sumSeq(resp.body.series[2].data)
            + sumSeq(resp.body.series[3].data) <=
                CountIf(stored, LAMBDA e : e.Timestamp >= now - Day)

\* C6: the input of every in-memory aggregation is exactly its snapshot of
\* the stored entries when the snapshot is non-empty and exactly the seed set
\* when it is empty, never a mix; a snapshot taken after an append never
\* leads to the seed set.
C6_SourceIsSnapshotOrSeed ==
    \A r \in Reqs :
        pending[r].pc = "answered" =>
            LET p == pending[r] IN
            /\ Len(p.logs) <= Len(logStore)
            /\ p.logs = SubSeq(logStore, 1, Len(p.logs))
            /\ p.logs # <<>> => p.source = p.logs
            /\ p.logs = <<>> => p.source = mockSource
            /\ \A i \in 1..Len(p.source) :
                  (\E j \in 1..Len(mockSource) : p.source[i] = mockSource[j]) => p.logs = <<>>
            /\ p.seen > 0 => p.source # mockSource

\* A request that copied the empty store answers from the seed set although
\* an ingest has appended an entry since, while another request that copied
\* afterwards is still computing.
C6_Witness ==
    \E r, q \in Reqs :
        /\ pending[r].pc = "answered"
        /\ pending[r].source = mockSource
        /\ logStore # <<>>
        /\ pending[q].pc = "copied"
        /\ pending[q].logs = logStore

\* C11: every successful Timeline answer has exactly 24 labels, oldest first:
\* the last label is the HH:MM of the call and each label is one hour after
\* the label before it; and exactly the three series Access, Network, Threat,
\* each of 24 counts that are all >= 0.
C11_TimelineShape ==
    (resp.op = "timeline" /\ resp.status = 200) =>
        LET b == resp.body IN
        /\ Len(b.labels) = 24
        /\ b.labels[24] = << (now % Day) \div Hour, now % Hour >>
        /\ \A i \in 1..23 :
              /\ b.labels[i + 1][1] = (b.labels[i][1] + 1) % 24
              /\ b.labels[i + 1][2] = b.labels[i][2]
        /\ Len(b.series) = 3
        /\ <<b.series[1].name, b.series[2].name, b.series[3].name>> = <<"Access", "Network", "Threat">>
        /\ \A s \in 1..3 :
              /\ Len(b.series[s].data) = 24
              /\ \A k \in 1..24 : b.series[s].data[k] \in Nat

\* A Timeline answer given after time has passed, with an entry counted in a
\* bucket that is not the last one.
C11_Witness ==
    /\ resp.op = "timeline"
    /\ resp.status = 200
    /\ now # StartTime
    /\ \E s \in 1..3, k \in 1..23 : resp.body.series[s].data[k] > 0

\* The rows Database.GetTimelineData puts in a bucket at time t: those its
\* query selects whose HH:MM equals one of the 24 labels.
bucketed(rows, t) ==
    SelectSeq(rows, LAMBDA r : /\ r.Timestamp >= t - Day
                               /\ \E k \in 0..23 : Format1504(r.Timestamp) = Format1504(t - k * Hour))

\* C12: in the database backend each of the Access, Network and Threat series
\* of a Timeline answer counts exactly the bucketed rows whose rule Summary
\* counts in that category; a row Summary counts as UBA is in no series.
C12_TimelineClassifiesAsSummary ==
    (program = "db" /\ resp.op = "timeline" /\ resp.status = 200) =>
        LET rows == bucketed(dbLogs, now)
        IN /\ sumSeq(resp.body.series[1].data) =
                 GetSummaryStats(rows).accessNotables.total
           /\ sumSeq(resp.body.series[2].data) =
                 GetSummaryStats(rows).networkNotables.total
           /\ sumSeq(resp.body.series[3].data) =
                 GetSummaryStats(rows).threatNotables.total

\* C13: a search with a source-IP filter returns only entries whose sourceIP
\* field contains the filter text.
C13_SearchByIpReturnsOnlyThatSource ==
    (resp.op = "search" /\ resp.status = 200 /\ resp.req.ip # <<>>) =>
        \A i \in 1..Len(resp.body) : Contains(resp.body[i].SourceIP, resp.req.ip)

\* Whether text contains sub at some position, letters compared without
\* regard to case.
containsNoCase(text, sub) ==
    LET same(a, b) == \/ a = b
                      \/ (a \in DOMAIN LowerOf /\ LowerOf[a] = b)
                      \/ (b \in DOMAIN LowerOf /\ LowerOf[b] = a)
    IN \E i \in 0..(Len(text) - Len(sub)) :
          \A k \in 1..Len(sub) : same(text[i + k], sub[k])

\* C14: a search by rule returns exactly the stored entries whose rule name
\* contains the filter text, compared case-insensitively, and every stored
\* entry when the filter is empty. Stated for searches without an IP filter
\* and, in the database backend, under the default limit, which exceeds
\* MaxLogs.
C14_SearchByRuleReturnsExactlyMatches ==
    (/\ resp.op = "search" /\ resp.status = 200
     /\ resp.req.ip = <<>>
     /\ program = "db" => resp.req.limit = <<>>) =>
        LET hit(e) == containsNoCase(storedRuleName(e), resp.req.event)
        IN /\ Len(resp.body) = CountIf(stored, hit)
           /\ \A i \in 1..Len(stored) :
                 CountIf(resp.body, LAMBDA e : e = stored[i]) =
                    IF hit(stored[i]) THEN CountIf(stored, LAMBDA e : e = stored[i]) ELSE 0

\* C15: the in-memory search returns its entries in insertion order; the
\* database search returns its entries newest first, and when it returns fewer
\* entries than are stored for a search without filters, no entry left out is
\* newer than a returned one.
C15_SearchOrder ==
    (resp.op = "search" /\ resp.status = 200) =>
        LET body == resp.body IN
        /\ program = "main" =>
              body = SelectSeq(logStore, LAMBDA e : \E j \in 1..Len(body) : body[j] = e)
        /\ program = "db" =>
              /\ \A i, j \in 1..Len(body) : i < j => body[i].Timestamp >= body[j].Timestamp
              /\ (resp.req.ip = <<>> /\ resp.req.event = <<>> /\ body # <<>>) =>
                    \A i \in 1..Len(dbLogs) :
                        CountIf(body, LAMBDA e : e = dbLogs[i]) <
                            CountIf(dbLogs, LAMBDA e : e = dbLogs[i])
                        => dbLogs[i].Timestamp <= body[Len(body)].Timestamp

\* A database search cut by its limit: three rows with distinct timestamps,
\* inserted oldest last but one, of which the two newest are returned.
C15_Witness ==
    /\ program = "db"
    /\ resp.op = "search"
    /\ resp.status = 200
    /\ Len(dbLogs) = 3
    /\ Len(resp.body) = 2
    /\ dbLogs[1].Timestamp < dbLogs[2].Timestamp
    /\ dbLogs[3].Timestamp < dbLogs[1].Timestamp
    /\ resp.body = <<dbLogs[2], dbLogs[1]>>

\* The decimal numeral of n >= 0.
RECURSIVE decimal(_)
decimal(n) ==
    LET digit == <<"0", "1", "2", "3", "4", "5", "6", "7", "8", "9">>[(n % 10) + 1]
    IN IF n < 10 THEN <<digit>> ELSE Append(decimal(n \div 10), digit)

decimals == [n \in 1..1000 |-> decimal(n)]

\* The integer each numeral of 1..1000 writes.
limitOf == [s \in {decimals[n] : n \in 1..1000} |-> CHOOSE n \in 1..1000 : decimals[n] = s]

\* The limit a request asks for: the integer its limit parameter writes when
\* that is one of 1..1000 (with or without a plus sign), 100 otherwise.
effectiveLimit(limitStr) ==
    LET numeral == IF limitStr # <<>> /\ Head(limitStr) = "+" THEN Tail(limitStr) ELSE limitStr
    IN IF numeral \in DOMAIN limitOf THEN limitOf[numeral] ELSE 100

C17_DrilldownFetchesTheRule ==
    (resp.op = "search" /\ resp.status = 200 /\ ui.drilldown # <<>>) =>
        /\ Len(resp.body) = CountIf(dbLogs, LAMBDA e : e.Rule = ui.drilldown)
        /\ \A i \in 1..Len(dbLogs) :
              CountIf(resp.body, LAMBDA e : e = dbLogs[i]) =
                 IF dbLogs[i].Rule = ui.drilldown
                 THEN CountIf(dbLogs, LAMBDA e : e = dbLogs[i]) ELSE 0

\* C18: the /metrics export of each backend reports a total equal to the
\* number of entries ingested so far, and its per-level counts and (where it
\* has them) its per-rule counts each sum to that total.
C18_MetricsCountIngested ==
    (resp.op = "metrics" /\ resp.status = 200) =>
        LET b == resp.body
            counts(lines) == [j \in 1..Len(lines) |-> lines[j].count]
        IN /\ b.total = Len(stored)
           /\ sumSeq(counts(b.byLevel)) = b.total
           /\ program # "imdb" => sumSeq(counts(b.byRule)) = b.total

\* C19: a read snapshot of the in-memory store never holds a partially
\* appended entry, is a prefix of the store at every later time, and does
\* not change while its request is still computing.
C19_SnapshotStable ==
    /\ [](\A r \in Readers :
             pending[r].pc \in {"copied", "computing"} =>
                /\ ~pending[r].torn
                /\ Len(pending[r].logs) <= Len(stored)
                /\ pending[r].logs = SubSeq(stored, 1, Len(pending[r].logs)))
    /\ [][\A r \in Readers :
             (pending[r].pc \in {"copied", "computing"} /\ pending'[r].pc \in {"copied", "computing"})
                => pending'[r].logs = pending[r].logs]_vars

\* A request still computing on a non-empty snapshot while an append is in
\* progress behind it.
C19_Witness ==
    \E r \in Readers, w \in Writers :
        /\ pending[r].pc = "computing"
        /\ pending[r].logs # <<>>
        /\ pending[w].pc = "appending"
        /\ Len(pending[r].logs) < Len(stored)

\* C20: under fair scheduling, with read requests arriving at any rate,
\* every ingest that has decoded a valid entry eventually appends it and
\* answers 201.
C20_WriterNotStarved ==
    \A w \in Writers : (pending[w].pc = "decoded") ~> (pending[w].pc = "responded")

\* An ingest blocked in Lock while every reader holds the read lock.
C20_Witness ==
    \E w \in Writers :
        /\ pending[w].pc = "waiting"
        /\ mu.readers = Readers

\* C21: the in-memory stores (logStore of main.go, db.logs of part_001) are
\* append-only: every step leaves a store as it was or adds exactly one entry
\* at its end, and a step that answers an aggregation, a search, the metrics
\* or a filtered retrieval leaves the stores unchanged.
C21_AppendOnly ==
    [][ /\ \A pair \in {<<logStore, logStore'>>, <<inMemoryDB, inMemoryDB'>>} :
            \/ pair[2] = pair[1]
            \/ /\ Len(pair[2]) = Len(pair[1]) + 1
               /\ SubSeq(pair[2], 1, Len(pair[1])) = pair[1]
        /\ resp'.op \notin {"none", "ingest"} =>
              /\ logStore' = logStore
              /\ inMemoryDB' = inMemoryDB ]_vars

\* The Top Sources of a store of two entries have been answered, and the
\* second entry was appended after the first.
C21_Witness ==
    /\ program = "main"
    /\ resp.op = "topSources"
    /\ Len(logStore) = 2
    /\ logStore[1] # logStore[2]

\* C22: an ingest answered with a rejection (400, 405) or a failure (500)
\* leaves every store as it was, and an ingest is answered 201 only in a step
\* that appends exactly one entry to the store of the running program.
C22_RejectedIngestStoresNothing ==
    [][ resp'.op = "ingest" =>
          /\ resp'.status \in {201, 400, 405, 500}
          /\ resp'.status # 201 => <<logStore, dbLogs, inMemoryDB>>' = <<logStore, dbLogs, inMemoryDB>>
          /\ resp'.status = 201 =>
                /\ Len(stored') = Len(stored) + 1
                /\ SubSeq(stored', 1, Len(stored)) = stored ]_vars

\* A body that does not decode has been answered 400 by src/backend/main.go
\* while its store holds an entry of an earlier request.
C22_Witness ==
    /\ program = "main"
    /\ resp.op = "ingest"
    /\ resp.status = 400
    /\ Len(logStore) = 1

\* C23: in the database backend a successful Summary, Urgency or Timeline
\* answer is the aggregate of all rows of the table, and an error answer
\* carries no aggregate.
C23_CompleteOrFailed ==
    program = "db" =>
        /\ (resp.op = "summary" /\ resp.status = 200) => resp.body = GetSummaryStats(dbLogs)
        /\ (resp.op = "urgency" /\ resp.status = 200) => resp.body = GetUrgencyData(dbLogs, now)
        /\ (resp.op = "timeline" /\ resp.status = 200) => resp.body = GetTimelineData(dbLogs, now)
        /\ (resp.op # "none" /\ resp.status = 500) => "body" \notin DOMAIN resp

\* C24: every element of a TopEvents or TopSources answer carries a trend of
\* exactly 10 integers, each from count \div 10 to count \div 10 + 4.
C24_TrendShape ==
    (resp.op \in {"topEvents", "topSources"} /\ resp.status = 200) =>
        \A j \in 1..Len(resp.body) :
            LET e == resp.body[j] IN
            /\ Len(e.sparkline) = 10
            /\ \A i \in 1..10 : e.sparkline[i] \in (e.count \div 10)..(e.count \div 10 + 4)

\* The index of the first entry of seq, in insertion order, whose key is k.
firstIndex(seq, key(_), k) ==
    CHOOSE i \in 1..Len(seq) : key(seq[i]) = k /\ \A h \in 1..(i - 1) : key(seq[h]) # k

\* The name of a stored urgency as the urgency histogram reads it.
urgencyName(u) ==
    CASE u = 4 -> "critical" [] u = 3 -> "high" [] u = 2 -> "medium" [] u = 1 -> "low"
      [] OTHER -> "none"

\* C25: the urgency attached to a key of TopEvents, and the category attached
\* to a key of TopSources, is that of the first stored entry with this key:
\* in src/backend/main.go the urgency and category its rule name has in
\* mockEvents, in the database backend the urgency column (when it is one of
\* the four levels) and the category of the rule column.
C25_FirstEntryDecides ==
    (resp.op \in {"topEvents", "topSources"} /\ resp.status = 200 /\ stored # <<>>) =>
        \A j \in 1..Len(resp.body) :
            LET e == resp.body[j] IN
            CASE program = "main" /\ resp.op = "topEvents" ->
                   e.urgency = mockUrgency(
                       logStore[firstIndex(logStore, LAMBDA x : x.RuleName, e.ruleName)].RuleName)
              [] program = "main" /\ resp.op = "topSources" ->
                   e.category = mockCategory(
                       logStore[firstIndex(logStore, LAMBDA x : x.SourceIP, e.sourceIP)].RuleName)
              [] program = "db" /\ resp.op = "topEvents" ->
                   LET first == dbLogs[firstIndex(dbLogs, LAMBDA x : x.Event, e.ruleName)]
                   IN first.Urgency \in 1..4 => e.urgency = urgencyName(first.Urgency)
              [] program = "db" /\ resp.op = "topSources" ->
                   e.category = categoryOf(
                       dbLogs[firstIndex(dbLogs, LAMBDA x : x.SourceIP, e.sourceIP)].Rule)
              [] OTHER -> TRUE

\* The number of entries whose ingest has been answered 201: those of the
\* store but the one of an ingest that has appended and not yet answered.
acknowledged ==
    Len(stored) - Cardinality({w \in Writers : pending[w].pc \in {"appending", "appended", "unlocked"}})

\* C26: whenever a read request takes its snapshot of the in-memory store,
\* the snapshot contains every entry whose ingest has been answered 201 by
\* then (so every entry acknowledged before the request started), whatever
\* the other requests do; the answer is computed from that snapshot.
C26_ReadsSeeAcknowledgedEntries ==
    [][ \A r \in Readers :
          (pending[r].pc = "rlocked" /\ pending'[r].pc = "copied") =>
              /\ Len(pending'[r].logs) >= acknowledged
              /\ SubSeq(pending'[r].logs, 1, acknowledged) = SubSeq(stored, 1, acknowledged) ]_vars

\* An ingest has been answered 201 and a read that copied the store holds
\* its entry, while the other reader still computes on an older snapshot.
C26_Witness ==
    \E w \in Writers, r, old \in Readers :
        /\ pending[w].pc = "responded"
        /\ pending[r].pc = "copied"
        /\ pending[r].logs = stored
        /\ stored # <<>>
        /\ pending[old].pc = "computing"
        /\ Len(pending[old].logs) < Len(stored)

\* C27: when a refresh started by the timer completes with the answers of
\* the backend, the page of the Top Events table and the open drilldown are
\* the ones the user had when the refresh started.
C27_RefreshKeepsView ==
    [][ (ui.inFlight /\ ~ui'.inFlight /\ ui.before.by = "timer" /\ ~ui'.error) =>
            /\ ui'.currentPage = ui.before.currentPage
            /\ ui'.drilldown = ui.before.drilldown ]_vars

\* C28: a step of a refresh (fetchData is called by the timer or by a change
\* of the interval, or its requests settle, with the answers or with a
\* failure) leaves the search inputs, the search results and the search
\* error unchanged.
C28_RefreshKeepsSearch ==
    [][ (ui'.inFlight # ui.inFlight \/ ui'.refreshInterval # ui.refreshInterval) =>
            /\ ui'.searchIp = ui.searchIp
            /\ ui'.searchEvent = ui.searchEvent
            /\ ui'.searchResults = ui.searchResults
            /\ ui'.searchError = ui.searchError ]_vars

\* A refresh started by the timer, at an interval the user selected, is in
\* flight while the search holds inputs and two results.
C28_Witness ==
    /\ ui.inFlight
    /\ ui.before.by = "timer"
    /\ ui.refreshInterval = 5
    /\ ui.searchIp = Ip10_0_0_1
    /\ ui.searchEvent = KwLogin
    /\ Len(ui.searchResults) = 2

\* C29: in a Timeline answer computed from stored entries, every entry of
\* category access, network or threat whose timestamp lies in the trailing 24
\* hours is counted in a bucket of its series, whatever its minute: each
\* series sums to at least the number of such entries.
C29_TimelineCountsEveryMinute ==
    (resp.op = "timeline" /\ resp.status = 200 /\ program \in {"main", "db"} /\ stored # <<>>) =>
        \A s \in 1..3 :
            LET cat == <<"access", "network", "threat">>[s]
                catOf(e) == IF program = "main" THEN mockCategory(e.RuleName)
                            ELSE timelineCategoryOf(e.Rule)
                inDay == {i \in 1..Len(stored) :
                            /\ now - Day < stored[i].Timestamp
                            /\ stored[i].Timestamp <= now
                            /\ catOf(stored[i]) = cat}
            IN sumSeq(resp.body.series[s].data) >= Cardinality(inDay)

\* C30: a successful filtered retrieval of part_001 returns, in insertion
\* order, exactly the stored entries that meet every criterion given: level
\* equal to the filter, timestamp from `from` on and up to `to` (both
\* inclusive, a zero time.Time being no bound), message containing the
\* keyword; with no criterion it returns what GetAll returns.
C30_FilterReturnsExactlyMatches ==
    (program = "imdb" /\ resp.op = "logs" /\ resp.status = 200) =>
        LET q == resp.req
            meets(e) ==
                /\ q.level # "" => e.Level = q.level
                /\ q.from.instant # 0 => e.Timestamp >= q.from.instant
                /\ q.to.instant # 0 => e.Timestamp <= q.to.instant
                /\ q.keyword # <<>> =>
                      \E i \in 1..Len(e.Message) :
                          /\ i + Len(q.keyword) - 1 <= Len(e.Message)
                          /\ \A j \in 1..Len(q.keyword) : e.Message[i + j - 1] = q.keyword[j]
            idx == {i \in 1..Len(inMemoryDB) : meets(inMemoryDB[i])}
        IN /\ Len(resp.body) = Cardinality(idx)
           /\ \A i \in idx :
                 resp.body[Cardinality({h \in idx : h <= i})] = inMemoryDB[i]
           /\ (q.level = "" /\ q.keyword = <<>> /\ q.from.instant = 0 /\ q.to.instant = 0) =>
                 resp.body = GetAll(inMemoryDB)

\* A retrieval with all four criteria from a store of three entries: the one
\* entry returned is stamped exactly `from`, and an entry stamped `to` is
\* stored but fails the level.
C30_Witness ==
    /\ program = "imdb"
    /\ resp.op = "logs"
    /\ resp.status = 200
    /\ resp.req.level = "ERROR"
    /\ resp.req.keyword # <<>>
    /\ resp.req.from.instant = StartTime - Hour
    /\ resp.req.to.instant = StartTime
    /\ Len(inMemoryDB) = 3
    /\ \E i \in 1..3 : inMemoryDB[i].Timestamp = StartTime
    /\ Len(resp.body) = 1
    /\ resp.body[1].Timestamp = StartTime - Hour

====
